---- MODULE Spec2Model ----
(***************************************************************************)
(* Model of the bulk transaction executor of varman (BaseModel.bulk_create, *)
(* bulk_update, bulk_delete) over the `variables` table, together with the  *)
(* single-record mapper operations it calls (create, get, update, delete)   *)
(* and the transaction behaviour of the sqlite3 connection they share.      *)
(*                                                                         *)
(* The entity is Variable restricted to the columns name and data_type.    *)
(* A dict key that is missing is the value NoKey; a missing id is NoId.    *)
(*                                                                         *)
(* Further sections model the paginated queries, the label and category    *)
(* collections and their caches, ValidationResult, the constraint          *)
(* registry, composite creation and import_from_json.                      *)
(***************************************************************************)
EXTENDS Integers, Sequences, FiniteSets, TLC

\* ---------------------------------------------------------------- bounds
MaxBatch == 3
MaxOtherCommits == 2

\* ------------------------------------------------------- value universes
NoKey == "<absent>"
NoId == 0
MissingId == 9

DATA_TYPES == {"discrete", "continuous", "nominal", "ordinal", "text"}
CATEGORICAL_TYPES == {"nominal", "ordinal"}

\* names that are lowercase Python identifiers, among the names used here
validate_name(name) == name \in {"a", "b", "c", "d"}

validate_data_type(data_type, valid_types) == data_type \in valid_types

\* rows of the table before the call, and its AUTOINCREMENT sequence
InitTable == { [id |-> 1, name |-> "a", data_type |-> "text"],
               [id |-> 2, name |-> "b", data_type |-> "text"] }
InitSeq == 2

\* items a caller passes to bulk_create
CreateItems ==
    { [name |-> "a",   data_type |-> "text"],
      [name |-> "c",   data_type |-> "text"],
      [name |-> "d",   data_type |-> "text"],
      [name |-> "c",   data_type |-> "bad"],
      [name |-> "",    data_type |-> "text"],
      [name |-> NoKey, data_type |-> "text"] }

\* items a caller passes to bulk_update
UpdateItems ==
    { [id |-> 1,         name |-> "c",   data_type |-> NoKey],
      [id |-> 2,         name |-> "c",   data_type |-> NoKey],
      [id |-> 2,         name |-> "a",   data_type |-> NoKey],
      [id |-> 1,         name |-> "",    data_type |-> NoKey],
      [id |-> 1,         name |-> NoKey, data_type |-> "bad"],
      [id |-> 1,         name |-> NoKey, data_type |-> NoKey],
      [id |-> NoId,      name |-> "d",   data_type |-> NoKey],
      [id |-> MissingId, name |-> "d",   data_type |-> NoKey] }

\* ids a caller passes to bulk_delete
DeleteIds == {1, 2, MissingId}

Batches(S) == UNION { [1..n -> S] : n \in 0..MaxBatch }

\* ------------------------------------------------------------ the state
VARIABLES
    db,          \* committed rows of the table, as every connection sees them
    seq,         \* committed AUTOINCREMENT sequence of the table
    work,        \* rows as the bulk connection sees them (db + uncommitted)
    wseq,        \* AUTOINCREMENT sequence as the bulk connection sees it
    inTxn,       \* connection.in_transaction of the bulk connection
    lock,        \* holder of the database write lock: none, bulk, other
    pc,          \* idle, loop, except, done
    op,          \* create, update, delete
    items,       \* the input list
    validate,    \* the validate argument
    stop,        \* the stop_on_error argument
    i,           \* position of the next item of the loop
    successful,  \* successful_items / successful_ids
    errors,      \* errors
    processed,   \* positions whose loop body has started
    wrote,       \* positions for which an INSERT/UPDATE/DELETE was executed
    escaped,     \* an exception left the item loop
    otherCommits,\* commits of another connection since the call began
    rec,         \* the instance the caller holds
    recBefore,   \* that instance before the last call
    call,        \* the last Record Mapper call: create, get, update, ...
    arg,         \* its arguments
    ret,         \* what it returned or raised
    before,      \* the committed rows before the last call
    stmts,       \* statements the last call executed on the store
    calls,       \* Record Mapper calls made so far
    conn,        \* the connection argument: none, idle, txn (open transaction)
    runsOn,      \* connection a bulk call runs its statements on
    callerItems, \* the caller's input list as it is now
    labels,      \* committed rows of the labels table, in id order
    validation_result, \* a ValidationResult a caller fills in
    errorCalls,   \* add_error calls made on it so far
    CONSTRAINT_TYPES, \* the registry of constraint types: tag -> class
    registryBefore, \* the registry before the last call
    built, \* the last registry call and what it returned or raised
    labelRows, \* rows of the labels table: id and owning category
    labelSeq, \* AUTOINCREMENT sequence of the labels table
    label_cache, \* _labels of the Category instance the caller holds
    categoryRows, \* rows of the categories table
    categorySeq, \* AUTOINCREMENT sequence of the categories table
    category_cache, \* _categories of the CategorySet instance the caller holds
    childCall, \* the last add or remove call and its outcome
    category_sets, \* rows of the category_sets table
    setSeq, \* AUTOINCREMENT sequence of the category_sets table
    setsBefore, \* rows of category_sets before the last composite call
    categoriesBefore, \* rows of categories before the last composite call
    composite, \* the last composite call and its outcome
    import_result \* what the last import_from_json call returned

mapperVars == << rec, recBefore, call, arg, ret, before, stmts, calls >>

callerVars == << conn, runsOn, callerItems, labels >>

bulkVars == << inTxn, lock, pc, op, items, validate, stop, i, successful,
               errors, processed, wrote, escaped, otherCommits >>

validationVars == << validation_result, errorCalls >>

registryVars == << CONSTRAINT_TYPES, registryBefore, built >>

cacheVars == << labelRows, labelSeq, label_cache, categoryRows, categorySeq, category_cache, childCall >>

compositeVars == << category_sets, setSeq, setsBefore, categoriesBefore, composite >>

importVars == << import_result >>

extraVars == << validationVars,
                registryVars,
                cacheVars,
                compositeVars,
                importVars >>

coreVars == << db, seq, work, wseq, bulkVars, mapperVars, callerVars >>

\* what the calls of one section leave alone
outsideValidation == << coreVars, registryVars,
        cacheVars,
        compositeVars,
        importVars >>

outsideRegistry == << coreVars, validationVars,
        cacheVars,
        compositeVars,
        importVars >>

outsideCache == << coreVars, validationVars,
        registryVars,
        compositeVars,
        importVars >>

outsideComposite == << coreVars, validationVars,
        registryVars,
        cacheVars,
        importVars >>

outsideImport == << coreVars, validationVars,
        registryVars,
        cacheVars,
        compositeVars >>

vars == << db, seq, work, wseq, bulkVars, mapperVars, callerVars,
           extraVars >>

\* an instance without identifier and without values: Model()
NoRecord == [id |-> NoId, name |-> NoKey, data_type |-> NoKey]

NoRet == [status |-> "none", value |-> NoRecord, rows |-> << >>,
          total |-> 0, error |-> ""]

\* ValidationResult(): no error, no warning
ValidationResult == [errors |-> << >>, warnings |-> << >>]

\* the registry as the module defines it
BuiltinTypes ==
    [t \in {"min_value", "max_value", "email", "url", "regex"} |->
        CASE t = "min_value" -> "MinValueConstraint"
          [] t = "max_value" -> "MaxValueConstraint"
          [] t = "email" -> "EmailConstraint"
          [] t = "url" -> "UrlConstraint"
          [] OTHER -> "RegexConstraint"]

NoBuilt == [call |-> "none", tag |-> "", status |-> "none", class |-> ""]

\* the parent instance the caller holds has id 1; one child row belongs
\* to it and one to another parent
ParentId == 1
InitLabelRows == { [id |-> 1, entity_id |-> 1], [id |-> 2, entity_id |-> 2] }
InitCategoryRows == { [id |-> 1, name |-> "a", category_set_id |-> 1],
                      [id |-> 2, name |-> "a", category_set_id |-> 2] }
InitChildSeq == 2

\* self._labels = None / self._categories = None
NotLoaded == [loaded |-> FALSE, ids |-> << >>]

NoChildCall == [op |-> "none", id |-> NoId, status |-> "none"]

\* the category sets the two parents of InitCategoryRows are
InitSets == { [id |-> 1, name |-> "a"], [id |-> 2, name |-> "d"] }

NoComposite == [op |-> "none", status |-> "none", successful |-> << >>,
                errors |-> << >>, calls |-> 0]

NoImport == [called |-> FALSE, overwrite |-> FALSE,
             imported_variables |-> << >>, all_errors |-> << >>,
             overwritten_variables |-> << >>]

\* the objects the other sections work on, as they are constructed
InitExtra ==
    /\ validation_result = ValidationResult
    /\ errorCalls = 0
    /\ CONSTRAINT_TYPES = BuiltinTypes
    /\ registryBefore = BuiltinTypes
    /\ built = NoBuilt
    /\ labelRows = InitLabelRows
    /\ labelSeq = InitChildSeq
    /\ label_cache = NotLoaded
    /\ categoryRows = InitCategoryRows
    /\ categorySeq = InitChildSeq
    /\ category_cache = NotLoaded
    /\ childCall = NoChildCall
    /\ category_sets = InitSets
    /\ setSeq = InitChildSeq
    /\ setsBefore = InitSets
    /\ categoriesBefore = InitCategoryRows
    /\ composite = NoComposite
    /\ import_result = NoImport

Init ==
    /\ InitExtra
    /\ db = InitTable
    /\ seq = InitSeq
    /\ work = InitTable
    /\ wseq = InitSeq
    /\ inTxn = FALSE
    /\ lock = "none"
    /\ pc = "idle"
    /\ op = "none"
    /\ items = << >>
    /\ validate = TRUE
    /\ stop = FALSE
    /\ i = 1
    /\ successful = << >>
    /\ errors = << >>
    /\ processed = {}
    /\ wrote = {}
    /\ escaped = FALSE
    /\ otherCommits = 0
    /\ rec = NoRecord
    /\ recBefore = NoRecord
    /\ call = "none"
    /\ arg = NoRecord
    /\ ret = NoRet
    /\ before = InitTable
    /\ stmts = 0
    /\ calls = 0
    /\ conn = "none"
    /\ runsOn = "none"
    /\ callerItems = << >>
    /\ labels = << >>

\* ------------------------------------------------- validation pipeline
\* ValidationResult of Variable.validate_data: the fields in error and
\* the fields with a warning, in the order the checks run
\* data.get("category_set_id") and data.get("constraints") of an item;
\* a constraint is modelled by its type tag alone, without parameters
get_category_set_id(data) ==
    IF "category_set_id" \in DOMAIN data THEN data.category_set_id ELSE NoId

constraints(data) ==
    IF "constraints" \in DOMAIN data THEN data.constraints ELSE << >>

\* result.add_error(field, message) and result.add_warning(field, message)
add_error(res, field) ==
    [res EXCEPT !.errors = Append(@, field)]

add_warning(res, field) ==
    [res EXCEPT !.warnings = Append(@, field)]

\* the loop of validate_data over data["constraints"]: a constraint
\* without type or without the parameters of its type is an error, one of
\* a type the validator does not know is a warning
RECURSIVE validate_constraints(_, _)
validate_constraints(res, cs) ==
    IF cs = << >>
    THEN res
    ELSE LET type == Head(cs).type
             checked ==
                 IF type = "" \/ type \in {"range", "regex", "enum"}
                 THEN add_error(res, "constraints")
                 ELSE add_warning(res, "constraints")
         IN validate_constraints(checked, Tail(cs))

validate_data(data) ==
    LET nameErr == IF data.name = NoKey \/ data.name = ""
                   THEN << "name" >>
                   ELSE IF ~ validate_name(data.name)
                        THEN << "name" >> ELSE << >>
        typeErr == IF data.data_type = NoKey \/ data.data_type = ""
                   THEN << "data_type" >>
                   ELSE IF ~ validate_data_type(data.data_type, DATA_TYPES)
                        THEN << "data_type" >> ELSE << >>
        setErr  == IF data.data_type # NoKey /\ data.data_type # ""
                      /\ data.data_type \in CATEGORICAL_TYPES
                      /\ get_category_set_id(data) = NoId
                   THEN << "category_set" >> ELSE << >>
        setWarn == IF data.data_type # NoKey /\ data.data_type # ""
                      /\ data.data_type \notin CATEGORICAL_TYPES
                      /\ get_category_set_id(data) # NoId
                   THEN << "category_set" >> ELSE << >>
    IN validate_constraints([errors |-> nameErr \o typeErr \o setErr,
                             warnings |-> setWarn], constraints(data))

\* variant of is_valid: a warning makes the result invalid too
is_valid_without_warnings(result) ==
    Len(result.errors) = 0 /\ Len(result.warnings) = 0

is_valid(result) == Len(result.errors) = 0

\* ------------------------------------------------------ the store
\* outcome of INSERT/UPDATE of (name, data_type) against the rows `others`:
\* the schema's NOT NULL, CHECK and UNIQUE constraints of `variables`
ConstraintCheck(others, name, data_type) ==
    IF name = NoKey \/ data_type = NoKey
    THEN "NOT NULL constraint failed"
    ELSE IF data_type \notin {"discrete", "continuous", "text"}
         THEN "CHECK constraint failed"
         ELSE IF \E r \in others : r.name = name
              THEN "UNIQUE constraint failed"
              ELSE "ok"

\* the same for a row that carries a category_set_id: the CHECK ties a
\* category set to the data types nominal and ordinal
SetCheck(others, name, data_type, set_id) ==
    IF set_id = NoId
    THEN ConstraintCheck(others, name, data_type)
    ELSE IF name = NoKey \/ data_type = NoKey
         THEN "NOT NULL constraint failed"
         ELSE IF data_type \notin {"nominal", "ordinal"}
              THEN "CHECK constraint failed"
              ELSE IF \E r \in others : r.name = name
                   THEN "UNIQUE constraint failed"
                   ELSE "ok"

\* a write statement needs the database write lock
Execute(lk, check) == IF lk = "other" THEN "database is locked" ELSE check

\* variant of get: reads the rows as they were before the batch began
get_before_batch(tbl, id_value) == { r \in InitTable : r.id = id_value }

\* BaseModel.get on the bulk connection: the row with that id, or none
get(tbl, id_value) == { r \in tbl : r.id = id_value }

\* ------------------------------------------------- per-item bookkeeping
NoneData == [none |-> TRUE]

RecordValidationError(errs, idx, data, verrs) ==
    Append(errs, [idx |-> idx, data |-> data, kind |-> "errors",
                  errors |-> verrs, error |-> ""])

RecordError(errs, idx, data, msg) ==
    Append(errs, [idx |-> idx, data |-> data, kind |-> "error",
                  errors |-> << >>, error |-> msg])

\* variant of ValidationBlocks: the validation result is not consulted
ValidationIgnored(val, result) == FALSE

\* `if validate and hasattr(cls, 'validate_data')` and `not is_valid`
ValidationBlocks(val, result) == val /\ ~ is_valid(result)

\* variants of AfterItemError: the handler never re-raises / always does
AlwaysContinue(stp) == "loop"

AlwaysRaise(stp) == "except"

\* `if stop_on_error: raise` of the per-item handler
AfterItemError(stp) == IF stp THEN "except" ELSE "loop"

\* an exception raised inside the per-item try block, the errors list
\* being errs at that time: the handler appends an entry and re-raises
\* when stop_on_error is set
Fail(errs, data, msg) ==
    /\ errors' = RecordError(errs, i, data, msg)
    /\ pc' = AfterItemError(stop)
    /\ i' = IF pc' = "loop" THEN i + 1 ELSE i
    /\ escaped' = (pc' = "except")

\* variant of Skip: `continue` without keeping the recorded entry
SkipDropsEntry(errs) ==
    /\ errors' = errors
    /\ pc' = "loop"
    /\ i' = i + 1
    /\ escaped' = escaped

\* `continue` after a per-item error was recorded
Skip(errs) ==
    /\ errors' = errs
    /\ pc' = "loop"
    /\ i' = i + 1
    /\ escaped' = escaped

\* variant of Reject: the loop body raises in both stop_on_error modes
RejectAlwaysRaises(errs, data, msg) == Fail(errs, data, msg)

\* a per-item error found by the loop body itself (validation failure,
\* missing id, missing record): recorded, then `raise ValueError` inside
\* the try block when stop_on_error is set, else `continue`
Reject(errs, data, msg) ==
    IF stop THEN Fail(errs, data, msg) ELSE Skip(errs)

\* connection.commit()
Commit(tbl, sq) ==
    /\ db' = tbl
    /\ seq' = sq
    /\ work' = tbl
    /\ wseq' = sq
    /\ inTxn' = FALSE
    /\ lock' = IF lock = "bulk" THEN "none" ELSE lock

\* a write statement that raised: its changes are undone, the implicit
\* transaction stays open and keeps the write lock if it got it
StatementFailed(msg) ==
    /\ inTxn' = TRUE
    /\ lock' = IF msg = "database is locked" THEN lock ELSE "bulk"
    /\ UNCHANGED << db, seq, work, wseq >>

\* ------------------------------------------------------ bulk_create
bulk_create(items_data, val, stp) ==
    /\ pc = "idle"
    /\ op' = "create"
    /\ items' = items_data
    /\ validate' = val
    /\ stop' = stp
    /\ IF lock = "other"
       THEN /\ pc' = "except"
            /\ escaped' = TRUE
            /\ UNCHANGED << lock, inTxn >>
       ELSE /\ pc' = "loop"
            /\ lock' = "bulk"
            /\ inTxn' = TRUE
            /\ UNCHANGED escaped
    /\ UNCHANGED << db, seq, work, wseq, i, successful, errors, processed,
                    wrote, otherCommits >>
    /\ runsOn' = "own"
    /\ callerItems' = items_data
    /\ UNCHANGED << mapperVars, conn, labels >>
    /\ UNCHANGED extraVars

\* one iteration of the loop of bulk_create, BaseModel.create included
CreateItem ==
    /\ pc = "loop" /\ op = "create" /\ i <= Len(items)
    /\ LET item_data == items[i]
           result == validate_data(item_data)
           msg == Execute(lock, SetCheck(work, item_data.name,
                                         item_data.data_type,
                                         get_category_set_id(item_data)))
           row == [id |-> wseq + 1, name |-> item_data.name,
                   data_type |-> item_data.data_type]
       IN /\ processed' = processed \cup {i}
          /\ IF ValidationBlocks(validate, result)
             THEN /\ Reject(RecordValidationError(errors, i, item_data,
                                                  result.errors),
                            item_data, "Validation failed")
                  /\ UNCHANGED << db, seq, work, wseq, inTxn, lock,
                                  successful, wrote >>
             ELSE /\ wrote' = wrote \cup {i}
                  /\ IF msg = "ok"
                     THEN /\ Commit(work \cup {row}, wseq + 1)
                          /\ successful' = Append(successful,
                                                  [idx |-> i] @@ row)
                          /\ i' = i + 1
                          /\ UNCHANGED << errors, pc, escaped >>
                     ELSE /\ StatementFailed(msg)
                          /\ Fail(errors, item_data, msg)
                          /\ UNCHANGED successful
    /\ UNCHANGED << op, items, validate, stop, otherCommits >>
    /\ UNCHANGED << mapperVars, callerVars >>
    /\ UNCHANGED extraVars

\* ------------------------------------------------------ bulk_update
bulk_update(items_data, val, stp) ==
    /\ pc = "idle"
    /\ op' = "update"
    /\ items' = items_data
    /\ validate' = val
    /\ stop' = stp
    /\ IF lock = "other"
       THEN /\ pc' = "except"
            /\ escaped' = TRUE
            /\ UNCHANGED << lock, inTxn >>
       ELSE /\ pc' = "loop"
            /\ lock' = "bulk"
            /\ inTxn' = TRUE
            /\ UNCHANGED escaped
    /\ UNCHANGED << db, seq, work, wseq, i, successful, errors, processed,
                    wrote, otherCommits >>
    /\ runsOn' = "own"
    /\ callerItems' = items_data
    /\ UNCHANGED << mapperVars, conn, labels >>
    /\ UNCHANGED extraVars

\* the existing record's fields overlaid with the incoming changes
\* the keys of an item other than the identifier and the two columns
Extras(update_data) ==
    [k \in DOMAIN update_data \ {"id", "name", "data_type"} |->
        update_data[k]]

\* variant of Overlay: the validator is handed the incoming fields alone
OverlayIncomingOnly(current, update_data) ==
    [name |-> update_data.name, data_type |-> update_data.data_type]

\* `validation_data = {**current_data, **update_data}`
Overlay(current, update_data) ==
    [name |-> IF update_data.name # NoKey
              THEN update_data.name ELSE current.name,
     data_type |-> IF update_data.data_type # NoKey
                   THEN update_data.data_type ELSE current.data_type]

\* Variable.update validates the fields being updated and returns
\* (False, errors), without raising, when one of them is invalid
VariableUpdateRefuses(update_data) ==
    \/ /\ update_data.name # NoKey
       /\ (update_data.name = "" \/ ~ validate_name(update_data.name))
    \/ /\ update_data.data_type # NoKey
       /\ \/ update_data.data_type = ""
          \/ ~ validate_data_type(update_data.data_type, DATA_TYPES)

\* one iteration of the loop of bulk_update, Variable.update and
\* BaseModel.update included
UpdateItem ==
    /\ pc = "loop" /\ op = "update" /\ i <= Len(items)
    /\ LET item_data == items[i]
           found == get(work, item_data.id)
       IN /\ processed' = processed \cup {i}
          /\ IF item_data.id = NoId
             THEN /\ Reject(RecordError(errors, i, item_data,
                                        "id is required"),
                            item_data, "id is required")
                  /\ UNCHANGED << db, seq, work, wseq, inTxn, lock,
                                  successful, wrote >>
             ELSE IF found = {}
             THEN /\ Reject(RecordError(errors, i, item_data, "not found"),
                            item_data, "not found")
                  /\ UNCHANGED << db, seq, work, wseq, inTxn, lock,
                                  successful, wrote >>
             ELSE
               LET item == CHOOSE r \in found : TRUE
                   validation_data == Overlay(item, item_data)
                   result == validate_data(validation_data
                                           @@ Extras(item_data))
                   updated == [id |-> item.id] @@ validation_data
                   msg == Execute(lock,
                             SetCheck(work \ {item}, updated.name,
                                      updated.data_type,
                                      get_category_set_id(item_data)))
               IN IF ValidationBlocks(validate, result)
                  THEN /\ Reject(RecordValidationError(errors, i, item_data,
                                                       result.errors),
                                 item_data, "Validation failed")
                       /\ UNCHANGED << db, seq, work, wseq, inTxn, lock,
                                       successful, wrote >>
                  ELSE IF VariableUpdateRefuses(item_data)
                  THEN /\ successful' = Append(successful,
                                               [idx |-> i] @@ item)
                       /\ i' = i + 1
                       /\ UNCHANGED << db, seq, work, wseq, inTxn, lock,
                                       errors, pc, escaped, wrote >>
                  ELSE IF item_data.name = NoKey
                          /\ item_data.data_type = NoKey
                          /\ get_category_set_id(item_data) = NoId
                  THEN /\ successful' = Append(successful,
                                               [idx |-> i] @@ item)
                       /\ i' = i + 1
                       /\ UNCHANGED << db, seq, work, wseq, inTxn, lock,
                                       errors, pc, escaped, wrote >>
                  ELSE /\ wrote' = wrote \cup {i}
                       /\ IF msg = "ok"
                          THEN /\ Commit((work \ {item}) \cup {updated},
                                         wseq)
                               /\ successful' = Append(successful,
                                                   [idx |-> i] @@ updated)
                               /\ i' = i + 1
                               /\ UNCHANGED << errors, pc, escaped >>
                          ELSE /\ StatementFailed(msg)
                               /\ Fail(errors, item_data, msg)
                               /\ UNCHANGED successful
    /\ UNCHANGED << op, items, validate, stop, otherCommits >>
    /\ UNCHANGED << mapperVars, callerVars >>
    /\ UNCHANGED extraVars

\* ------------------------------------------------------ bulk_delete
bulk_delete(item_ids, stp) ==
    /\ pc = "idle"
    /\ op' = "delete"
    /\ items' = item_ids
    /\ stop' = stp
    /\ IF lock = "other"
       THEN /\ pc' = "except"
            /\ escaped' = TRUE
            /\ UNCHANGED << lock, inTxn >>
       ELSE /\ pc' = "loop"
            /\ lock' = "bulk"
            /\ inTxn' = TRUE
            /\ UNCHANGED escaped
    /\ UNCHANGED << db, seq, work, wseq, validate, i, successful, errors,
                    processed, wrote, otherCommits >>
    /\ runsOn' = "own"
    /\ callerItems' = item_ids
    /\ UNCHANGED << mapperVars, conn, labels >>
    /\ UNCHANGED extraVars

\* one iteration of the loop of bulk_delete, BaseModel.delete included
DeleteItem ==
    /\ pc = "loop" /\ op = "delete" /\ i <= Len(items)
    /\ LET item_id == items[i]
           found == get(work, item_id)
           data == [id |-> item_id]
           msg == Execute(lock, "ok")
       IN /\ processed' = processed \cup {i}
          /\ IF found = {}
             THEN /\ Reject(RecordError(errors, i, data, "not found"),
                            data, "not found")
                  /\ UNCHANGED << db, seq, work, wseq, inTxn, lock,
                                  successful, wrote >>
             ELSE /\ wrote' = wrote \cup {i}
                  /\ IF msg = "ok"
                     THEN /\ Commit(work \ found, wseq)
                          /\ successful' = Append(successful,
                                               [idx |-> i, id |-> item_id])
                          /\ i' = i + 1
                          /\ UNCHANGED << errors, pc, escaped >>
                     ELSE /\ StatementFailed(msg)
                          /\ Fail(errors, data, msg)
                          /\ UNCHANGED successful
    /\ UNCHANGED << op, items, validate, stop, otherCommits >>
    /\ UNCHANGED << mapperVars, callerVars >>
    /\ UNCHANGED extraVars

\* variant of FinalCommit: a batch without any success is reported as an
\* error
FinalCommitReportsEmpty ==
    /\ pc = "loop" /\ i > Len(items)
    /\ Commit(work, wseq)
    /\ pc' = "done"
    /\ errors' = IF Len(successful) = 0 /\ Len(errors) = 0
                 THEN RecordError(errors, 0, NoneData, "nothing processed")
                 ELSE errors
    /\ UNCHANGED << op, items, validate, stop, i, successful,
                    processed, wrote, escaped, otherCommits >>
    /\ UNCHANGED << mapperVars, callerVars >>
    /\ UNCHANGED extraVars

\* the commit after the loop, and closing the connection
FinalCommit ==
    /\ pc = "loop" /\ i > Len(items)
    /\ Commit(work, wseq)
    /\ pc' = "done"
    /\ UNCHANGED << op, items, validate, stop, i, successful, errors,
                    processed, wrote, escaped, otherCommits >>
    /\ UNCHANGED << mapperVars, callerVars >>
    /\ UNCHANGED extraVars

\* the outer handler: rollback, the entry added when errors is empty,
\* and closing the connection
\* variant of Rollback: the handler adds no entry of its own
RollbackAddsNoEntry ==
    /\ pc = "except"
    /\ work' = db
    /\ wseq' = seq
    /\ inTxn' = FALSE
    /\ lock' = IF lock = "bulk" THEN "none" ELSE lock
    /\ pc' = "done"
    /\ UNCHANGED << db, seq, op, items, validate, stop, i, successful,
                    errors, processed, wrote, escaped, otherCommits >>
    /\ UNCHANGED << mapperVars, callerVars >>
    /\ UNCHANGED extraVars

Rollback ==
    /\ pc = "except"
    /\ work' = db
    /\ wseq' = seq
    /\ inTxn' = FALSE
    /\ lock' = IF lock = "bulk" THEN "none" ELSE lock
    /\ errors' = IF Len(errors) = 0
                 THEN RecordError(errors, 0, NoneData, "transaction failed")
                 ELSE errors
    /\ pc' = "done"
    /\ UNCHANGED << db, seq, op, items, validate, stop, i, successful,
                    processed, wrote, escaped, otherCommits >>
    /\ UNCHANGED << mapperVars, callerVars >>
    /\ UNCHANGED extraVars

\* --------------------------------------------- another connection
\* another connection starts a write on the same database file
OtherBegin ==
    /\ lock = "none"
    /\ otherCommits < MaxOtherCommits
    /\ lock' = "other"
    /\ UNCHANGED << db, seq, work, wseq, inTxn, pc, op, items, validate,
                    stop, i, successful, errors, processed, wrote, escaped,
                    otherCommits >>
    /\ UNCHANGED << mapperVars, callerVars >>
    /\ UNCHANGED extraVars

\* and commits it (to a table other than `variables`)
OtherCommit ==
    /\ lock = "other"
    /\ lock' = "none"
    /\ otherCommits' = IF pc = "loop" THEN otherCommits + 1 ELSE otherCommits
    /\ UNCHANGED << db, seq, work, wseq, inTxn, pc, op, items, validate,
                    stop, i, successful, errors, processed, wrote, escaped >>
    /\ UNCHANGED << mapperVars, callerVars >>
    /\ UNCHANGED extraVars

\* ------------------------------------------------- specifications
Next ==
    \/ \E b \in Batches(CreateItems), v \in BOOLEAN, s \in BOOLEAN :
          bulk_create(b, v, s)
    \/ \E b \in Batches(UpdateItems), v \in BOOLEAN, s \in BOOLEAN :
          bulk_update(b, v, s)
    \/ \E b \in Batches(DeleteIds), s \in BOOLEAN :
          bulk_delete(b, s)
    \/ CreateItem
    \/ UpdateItem
    \/ DeleteItem
    \/ FinalCommit
    \/ Rollback

\* single-writer use: no other connection writes during the call
Spec == Init /\ [][Next]_vars

NextConc ==
    \/ Next
    \/ OtherBegin
    \/ OtherCommit

\* another connection writes to the same database file
SpecConc == Init /\ [][NextConc]_vars

\* ------------------------------------------------ the Record Mapper
MaxCalls == 3

\* the declared columns of the entity
columns == {"name", "data_type"}

Ok(value) == [status |-> "ok", value |-> value, rows |-> << >>,
              total |-> 0, error |-> ""]

Raised(msg) == [status |-> "raised", value |-> NoRecord, rows |-> << >>,
                total |-> 0, error |-> msg]

\* Variable.update returning (False, validation_errors)
Refused == [status |-> "refused", value |-> NoRecord, rows |-> << >>,
            total |-> 0, error |-> "validation"]

\* data maps given to create: id and bogus are keys that are not declared
\* columns, NoId and NoKey meaning that the key is absent
CreateData ==
    { [id |-> NoId, name |-> "c", data_type |-> "text", bogus |-> NoKey],
      [id |-> 7, name |-> "d", data_type |-> "continuous", bogus |-> "x"],
      [id |-> 1, name |-> "c", data_type |-> "text", bogus |-> NoKey],
      [id |-> NoId, name |-> "a", data_type |-> "text", bogus |-> "x"],
      [id |-> NoId, name |-> "d", data_type |-> "bad", bogus |-> NoKey],
      [id |-> NoId, name |-> "", data_type |-> "text", bogus |-> NoKey],
      [id |-> NoId, name |-> NoKey, data_type |-> "text", bogus |-> NoKey] }

\* data maps given to update
UpdateData ==
    { [id |-> NoId, name |-> "d", data_type |-> NoKey, bogus |-> NoKey],
      [id |-> NoId, name |-> NoKey, data_type |-> "continuous",
       bogus |-> "x"],
      [id |-> 2, name |-> "d", data_type |-> "continuous", bogus |-> NoKey],
      [id |-> 2, name |-> NoKey, data_type |-> NoKey, bogus |-> "x"],
      [id |-> NoId, name |-> "b", data_type |-> NoKey, bogus |-> NoKey],
      [id |-> NoId, name |-> NoKey, data_type |-> "bad", bogus |-> NoKey],
      [id |-> NoId, name |-> "", data_type |-> NoKey, bogus |-> NoKey] }

LoadIds == {1, 2, 3, MissingId}

\* variant of Instance: a caller-supplied id wins over the assigned one
InstanceKeepsCallerId(data, row_id) ==
    [id |-> IF data.id # NoId THEN data.id ELSE row_id,
     name |-> data.name, data_type |-> data.data_type]

\* cls(**{**data, id_column: row_id}): the constructor reads the id and
\* the declared columns and nothing else
Instance(data, row_id) ==
    [id |-> row_id, name |-> data.name, data_type |-> data.data_type]

\* BaseModel.create on a connection of its own: INSERT of the declared
\* columns present in data, commit, instance with the assigned id
create(data) ==
    /\ calls < MaxCalls
    /\ LET msg == ConstraintCheck(db, data.name, data.data_type)
           row_id == seq + 1
           row == [id |-> row_id, name |-> data.name,
                   data_type |-> data.data_type]
       IN IF msg = "ok"
          THEN /\ db' = db \cup {row}
               /\ seq' = row_id
               /\ work' = db \cup {row}
               /\ wseq' = row_id
               /\ rec' = Instance(data, row_id)
               /\ ret' = Ok(Instance(data, row_id))
          ELSE /\ ret' = Raised(msg)
               /\ UNCHANGED << db, seq, work, wseq, rec >>
    /\ call' = "create"
    /\ arg' = data
    /\ before' = db
    /\ recBefore' = rec
    /\ stmts' = 1
    /\ calls' = calls + 1
    /\ UNCHANGED << bulkVars, callerVars >>
    /\ UNCHANGED extraVars

\* rec = Model.get(id_value): the instance of that row, or None
Load(id_value) ==
    /\ calls < MaxCalls
    /\ LET found == get(db, id_value)
       IN IF found = {}
          THEN /\ ret' = Ok(NoRecord)
               /\ UNCHANGED rec
          ELSE /\ ret' = Ok(CHOOSE r \in found : TRUE)
               /\ rec' = CHOOSE r \in found : TRUE
    /\ call' = "get"
    /\ arg' = [id |-> id_value]
    /\ before' = db
    /\ recBefore' = rec
    /\ stmts' = 1
    /\ calls' = calls + 1
    /\ UNCHANGED << db, seq, work, wseq, bulkVars, callerVars >>
    /\ UNCHANGED extraVars

\* variant of Assign: every key of data is assigned, the id included
AssignAnyKey(instance, data) ==
    [id |-> IF data.id # NoId THEN data.id ELSE instance.id]
        @@ Overlay(instance, data)

\* the setattr loop of update: the declared columns present in data
Assign(instance, data) == [id |-> instance.id] @@ Overlay(instance, data)

\* rec.update(data): Variable.update when `checked`, which validates the
\* fields being updated first, and BaseModel.update
update(data, checked) ==
    /\ calls < MaxCalls
    /\ IF checked /\ VariableUpdateRefuses(data)
       THEN /\ ret' = Refused
            /\ stmts' = 0
            /\ UNCHANGED << db, seq, work, wseq, rec >>
       ELSE IF rec.id = NoId
       THEN /\ ret' = Raised("Cannot update a model without an ID")
            /\ stmts' = 0
            /\ UNCHANGED << db, seq, work, wseq, rec >>
       ELSE LET assigned == Assign(rec, data)
                found == get(db, assigned.id)
            IN /\ rec' = assigned
               /\ IF data.name = NoKey /\ data.data_type = NoKey
                  THEN /\ ret' = Ok(assigned)
                       /\ stmts' = 0
                       /\ UNCHANGED << db, seq, work, wseq >>
                  ELSE IF found = {}
                  THEN /\ ret' = Ok(assigned)
                       /\ stmts' = 1
                       /\ UNCHANGED << db, seq, work, wseq >>
                  ELSE
                    LET item == CHOOSE r \in found : TRUE
                        updated == [id |-> item.id] @@ Overlay(item, data)
                        msg == ConstraintCheck(db \ {item}, updated.name,
                                               updated.data_type)
                    IN /\ stmts' = 1
                       /\ IF msg = "ok"
                          THEN /\ db' = (db \ {item}) \cup {updated}
                               /\ work' = (db \ {item}) \cup {updated}
                               /\ ret' = Ok(assigned)
                               /\ UNCHANGED << seq, wseq >>
                          ELSE /\ ret' = Raised(msg)
                               /\ UNCHANGED << db, seq, work, wseq >>
    /\ call' = "update"
    /\ arg' = data
    /\ before' = db
    /\ recBefore' = rec
    /\ calls' = calls + 1
    /\ UNCHANGED << bulkVars, callerVars >>
    /\ UNCHANGED extraVars

\* rec.delete(): BaseModel.delete
delete ==
    /\ calls < MaxCalls
    /\ IF rec.id = NoId
       THEN /\ ret' = Raised("Cannot delete a model without an ID")
            /\ stmts' = 0
            /\ UNCHANGED << db, work >>
       ELSE /\ db' = db \ get(db, rec.id)
            /\ work' = db \ get(db, rec.id)
            /\ ret' = Ok(NoRecord)
            /\ stmts' = 1
    /\ call' = "delete"
    /\ arg' = NoRecord
    /\ before' = db
    /\ recBefore' = rec
    /\ calls' = calls + 1
    /\ UNCHANGED << seq, wseq, rec, bulkVars, callerVars >>
    /\ UNCHANGED extraVars

NextMapper ==
    \/ \E data \in CreateData : create(data)
    \/ \E id_value \in LoadIds : Load(id_value)
    \/ \E data \in UpdateData, checked \in BOOLEAN : update(data, checked)
    \/ delete

\* a caller working through the Record Mapper, one call after the other
SpecMapper == Init /\ [][NextMapper]_vars

\* ------------------------------------------------ filter and paginate
MaxPage == 3

\* `if page_size > 1000`
MaxPageSize == 1000

Pages == 0..MaxPage

PageSizes == {-1, 0, 1, 2, MaxPageSize, MaxPageSize + 1}

\* sort_by: None, the id column, a declared column, an unknown column
SortColumns == {NoKey, "id", "name", "bogus"}

SortOrders == {"asc", "DESC", "sideways"}

\* filters / conditions over the declared columns, NoKey for a column that
\* is not listed; the first one is the empty map
Filters ==
    { [name |-> n, data_type |-> t] : n \in {NoKey, "b"},
                                      t \in {NoKey, "text"} }

\* search: None, the empty string, a term that occurs, a term that does not
Searches == {NoKey, "", "b", "z"}

\* the rows a queried table may hold
QueryRows ==
    InitTable \cup { [id |-> 3, name |-> "c", data_type |-> "continuous"] }

InitQuery ==
    /\ InitExtra
    /\ db \in SUBSET QueryRows
    /\ work = db
    /\ before = db
    /\ seq = Cardinality(QueryRows)
    /\ wseq = seq
    /\ inTxn = FALSE
    /\ lock = "none"
    /\ pc = "idle"
    /\ op = "none"
    /\ items = << >>
    /\ validate = TRUE
    /\ stop = FALSE
    /\ i = 1
    /\ successful = << >>
    /\ errors = << >>
    /\ processed = {}
    /\ wrote = {}
    /\ escaped = FALSE
    /\ otherCommits = 0
    /\ rec = NoRecord
    /\ recBefore = NoRecord
    /\ call = "none"
    /\ arg = NoRecord
    /\ ret = NoRet
    /\ stmts = 0
    /\ calls = 0
    /\ conn = "none"
    /\ runsOn = "none"
    /\ callerItems = << >>
    /\ labels = << >>

\* str.lower() and str.upper() on the sort orders of the model
Lower(sort_order) == IF sort_order = "DESC" THEN "desc" ELSE sort_order

Upper(sort_order) ==
    CASE sort_order = "asc" -> "ASC"
      [] sort_order = "sideways" -> "SIDEWAYS"
      [] OTHER -> sort_order

\* `column = ?` for every listed column, joined by AND
Matches(row, conditions) ==
    \A c \in columns : conditions[c] = NoKey \/ row[c] = conditions[c]

Where(tbl, conditions) == { r \in tbl : Matches(r, conditions) }

\* `name LIKE '%term%'`: names and terms of the model are one letter long,
\* so that containing the term is being the term
Like(value, term) == value = term

\* the store's collation of the values of the model
Collate(value) ==
    CASE value = "a" -> 1 [] value = "b" -> 2 [] value = "c" -> 3
      [] value = "d" -> 4 [] OTHER -> 0

SortKey(row, sort_by) ==
    IF sort_by = "id" THEN row.id ELSE Collate(row[sort_by])

Perms(S) ==
    { s \in [1..Cardinality(S) -> S] :
        \A m, n \in 1..Cardinality(S) : m # n => s[m] # s[n] }

\* the orders in which the store may return the rows S: the ORDER BY
\* order when there is an ORDER BY clause, any order when there is none
StoreOrders(S, sort_by, sort_order) ==
    { s \in Perms(S) :
        (sort_by \in columns \cup {"id"} /\ Upper(sort_order) \in {"ASC", "DESC"})
        => \A m, n \in 1..Len(s) :
              m < n => IF Upper(sort_order) = "DESC"
                       THEN SortKey(s[m], sort_by) >= SortKey(s[n], sort_by)
                       ELSE SortKey(s[m], sort_by) <= SortKey(s[n], sort_by) }

\* LIMIT ? OFFSET ?: a negative LIMIT is no limit, a negative OFFSET is 0
LimitOffset(s, limit, offset) ==
    LET first == IF offset < 0 THEN 1 ELSE offset + 1
        last == IF limit < 0 \/ first + limit - 1 > Len(s)
                THEN Len(s) ELSE first + limit - 1
    IN IF first > last THEN << >> ELSE SubSeq(s, first, last)

\* variant of Offset: the offset of the page after
OffsetOfNextPage(page, page_size) == page * page_size

\* `offset = (page - 1) * page_size`
Offset(page, page_size) == (page - 1) * page_size

Rows(rows, total) == [status |-> "ok", value |-> NoRecord, rows |-> rows,
                      total |-> total, error |-> ""]

\* the parameter validation of BaseModel.get_paginated
ParameterError(page, page_size, sort_by, sort_order) ==
    IF page < 1 THEN "Page number must be >= 1"
    ELSE IF page_size <= 0 THEN "Page size must be > 0"
    ELSE IF page_size > MaxPageSize THEN "Page size must be <= 1000"
    ELSE IF sort_by # NoKey /\ sort_by \notin columns /\ sort_by # "id"
    THEN "Sort column is not a valid column"
    ELSE IF Lower(sort_order) \notin {"asc", "desc"}
    THEN "Sort order must be 'asc' or 'desc'"
    ELSE "ok"

\* the count statement and the page statement over the matching rows,
\* `order` being the order in which the store returns them
Select(matching, page, page_size, sort_by, sort_order, order) ==
    IF matching = {}
    THEN [ret |-> Rows(<< >>, 0), stmts |-> 1]
    ELSE IF sort_by \notin {NoKey, ""} /\ sort_by \notin columns \cup {"id"}
    THEN [ret |-> Raised("no such column"), stmts |-> 1]
    ELSE IF sort_by \notin {NoKey, ""}
            /\ Upper(sort_order) \notin {"ASC", "DESC"}
    THEN [ret |-> Raised("syntax error"), stmts |-> 1]
    ELSE [ret |-> Rows(LimitOffset(order, page_size,
                                   Offset(page, page_size)),
                       Cardinality(matching)),
          stmts |-> 2]

\* BaseModel.get_paginated
get_paginated(page, page_size, filters, sort_by, sort_order) ==
    /\ call = "none"
    /\ LET err == ParameterError(page, page_size, sort_by, sort_order)
           matching == Where(db, filters)
       IN IF err # "ok"
          THEN /\ ret' = Raised(err)
               /\ stmts' = 0
          ELSE \E order \in StoreOrders(matching, sort_by, sort_order) :
                 LET out == Select(matching, page, page_size, sort_by,
                                   sort_order, order)
                 IN /\ ret' = out.ret
                    /\ stmts' = out.stmts
    /\ call' = "get_paginated"
    /\ arg' = [page |-> page, page_size |-> page_size, filters |-> filters,
               sort_by |-> sort_by, sort_order |-> sort_order,
               search |-> NoKey]
    /\ calls' = calls + 1
    /\ UNCHANGED << db, seq, work, wseq, rec, recBefore, before, bulkVars,
                    callerVars >>
    /\ UNCHANGED extraVars

\* Category.get_paginated: with a search term it builds and runs its own
\* statements, without one it calls BaseModel.get_paginated; a
\* category_set_id argument is one more entry of filters
category_get_paginated(page, page_size, filters, sort_by, sort_order, search) ==
    /\ call = "none"
    /\ LET err == ParameterError(page, page_size, sort_by, sort_order)
           matching == IF search \notin {NoKey, ""}
                       THEN { r \in Where(db, filters) :
                                Like(r.name, search) }
                       ELSE Where(db, filters)
       IN IF search \in {NoKey, ""} /\ err # "ok"
          THEN /\ ret' = Raised(err)
               /\ stmts' = 0
          ELSE \E order \in StoreOrders(matching, sort_by, sort_order) :
                 LET out == Select(matching, page, page_size, sort_by,
                                   sort_order, order)
                 IN /\ ret' = out.ret
                    /\ stmts' = out.stmts
    /\ call' = "category_get_paginated"
    /\ arg' = [page |-> page, page_size |-> page_size, filters |-> filters,
               sort_by |-> sort_by, sort_order |-> sort_order,
               search |-> search]
    /\ calls' = calls + 1
    /\ UNCHANGED << db, seq, work, wseq, rec, recBefore, before, bulkVars,
                    callerVars >>
    /\ UNCHANGED extraVars

\* BaseModel.filter: `SELECT * FROM t WHERE ` + the conditions joined by
\* AND; with no condition the statement ends after WHERE and the store
\* refuses it
filter(conditions) ==
    /\ call = "none"
    /\ IF \A c \in columns : conditions[c] = NoKey
       THEN /\ ret' = Raised("incomplete input")
            /\ stmts' = 0
       ELSE \E order \in StoreOrders(Where(db, conditions), NoKey, "asc") :
               /\ ret' = Rows(order, Len(order))
               /\ stmts' = 1
    /\ call' = "filter"
    /\ arg' = [conditions |-> conditions]
    /\ calls' = calls + 1
    /\ UNCHANGED << db, seq, work, wseq, rec, recBefore, before, bulkVars,
                    callerVars >>
    /\ UNCHANGED extraVars

NextQuery ==
    \/ \E page \in Pages, page_size \in PageSizes, filters \in Filters,
          sort_by \in SortColumns, sort_order \in SortOrders :
          get_paginated(page, page_size, filters, sort_by, sort_order)
    \/ \E page \in Pages, page_size \in PageSizes, filters \in Filters,
          sort_by \in SortColumns, sort_order \in SortOrders,
          search \in Searches :
          category_get_paginated(page, page_size, filters, sort_by,
                                 sort_order, search)
    \/ \E conditions \in Filters : filter(conditions)

\* one query against a table that does not change during the call
SpecQuery == InitQuery /\ [][NextQuery]_vars

\* ------------------------------------ Category.bulk_create_with_labels
\* the categories table before the call: two categories of set 1
InitCategories == { [id |-> 1, name |-> "a", category_set_id |-> 1],
                    [id |-> 2, name |-> "b", category_set_id |-> 1] }

\* label maps of an item: complete, without language, without text
LabelEn == [text |-> "X", language_code |-> "en"]

LabelNoLanguage == [text |-> "Y", language_code |-> NoKey]

LabelNoText == [text |-> NoKey, language_code |-> "fr"]

\* items given to bulk_create_with_labels; has_labels tells whether the
\* item has a labels key
LabelItems ==
    { [name |-> "c", category_set_id |-> 1, has_labels |-> TRUE,
       labels |-> << LabelEn >>],
      [name |-> "c", category_set_id |-> 1, has_labels |-> TRUE,
       labels |-> << LabelEn, LabelNoLanguage >>],
      [name |-> "d", category_set_id |-> 1, has_labels |-> TRUE,
       labels |-> << LabelNoText >>],
      [name |-> "a", category_set_id |-> 1, has_labels |-> TRUE,
       labels |-> << LabelEn >>],
      [name |-> "d", category_set_id |-> 1, has_labels |-> FALSE,
       labels |-> << >>],
      [name |-> "", category_set_id |-> 1, has_labels |-> TRUE,
       labels |-> << >>] }

\* the caller passes no connection, an idle one, or one with an open
\* transaction
Connections == {"none", "idle", "txn"}

InitLabels ==
    /\ InitExtra
    /\ db = InitCategories
    /\ work = InitCategories
    /\ before = InitCategories
    /\ seq = Cardinality(InitCategories)
    /\ wseq = seq
    /\ conn \in Connections
    /\ inTxn = FALSE
    /\ lock = "none"
    /\ pc = "idle"
    /\ op = "none"
    /\ items = << >>
    /\ validate = TRUE
    /\ stop = FALSE
    /\ i = 1
    /\ successful = << >>
    /\ errors = << >>
    /\ processed = {}
    /\ wrote = {}
    /\ escaped = FALSE
    /\ otherCommits = 0
    /\ rec = NoRecord
    /\ recBefore = NoRecord
    /\ call = "none"
    /\ arg = NoRecord
    /\ ret = NoRet
    /\ stmts = 0
    /\ calls = 0
    /\ runsOn = "none"
    /\ callerItems = << >>
    /\ labels = << >>

\* Category.validate_data: name, category_set_id and every label
label_errors(label) ==
    (IF label.text = NoKey \/ label.text = ""
     THEN << "labels[].text" >> ELSE << >>)
    \o (IF label.language_code = NoKey
        THEN << "labels[].language" >> ELSE << >>)

RECURSIVE labels_errors(_)
labels_errors(labels_data) ==
    IF Len(labels_data) = 0 THEN << >>
    ELSE label_errors(Head(labels_data)) \o labels_errors(Tail(labels_data))

category_validate_data(data) ==
    LET nameErr == IF data.name = NoKey \/ data.name = ""
                   THEN << "name" >>
                   ELSE IF ~ validate_name(data.name)
                        THEN << "name" >> ELSE << >>
        setErr == IF data.category_set_id = NoId
                  THEN << "category_set_id" >> ELSE << >>
        labelErr == IF data.has_labels THEN labels_errors(data.labels)
                    ELSE << >>
    IN [errors |-> nameErr \o setErr \o labelErr, warnings |-> << >>]

\* outcome of INSERT into categories: NOT NULL and UNIQUE (name, set)
CategoryConstraintCheck(others, name, category_set_id) ==
    IF name = NoKey \/ category_set_id = NoId
    THEN "NOT NULL constraint failed"
    ELSE IF \E r \in others : r.name = name
                              /\ r.category_set_id = category_set_id
         THEN "UNIQUE constraint failed"
         ELSE "ok"

\* outcome of category.add_label(text=label_data["text"], ...)
add_label_outcome(label_data) ==
    IF label_data.text = NoKey THEN "KeyError: 'text'"
    ELSE IF label_data.language_code = NoKey
    THEN "Either language_code or language must be provided"
    ELSE "ok"

\* number of labels added before the first add_label that raises
RECURSIVE LabelsAdded(_)
LabelsAdded(labels_data) ==
    IF Len(labels_data) = 0 \/ add_label_outcome(Head(labels_data)) # "ok"
    THEN 0
    ELSE 1 + LabelsAdded(Tail(labels_data))

\* `item_data.pop("labels", [])`: the item without its labels key
PopLabels(item_data) ==
    [item_data EXCEPT !.has_labels = FALSE, !.labels = << >>]

\* the connection the call works on is the caller's when one was passed
UsedConnection(connection) ==
    IF connection = "none" THEN "own" ELSE "caller"

\* state of the caller's connection when the call left its connection
\* in or out of a transaction
ConnAfter(used, connection, in_transaction) ==
    IF used = "caller"
    THEN IF in_transaction THEN "txn" ELSE "idle"
    ELSE connection

bulk_create_with_labels(items_data, val, stp) ==
    /\ pc = "idle"
    /\ op' = "create_with_labels"
    /\ items' = items_data
    /\ callerItems' = items_data
    /\ validate' = val
    /\ stop' = stp
    /\ arg' = [connection |-> conn]
    /\ runsOn' = UsedConnection(conn)
    /\ IF conn = "txn"
       THEN /\ pc' = "raised"
            /\ escaped' = TRUE
            /\ UNCHANGED << inTxn, conn >>
       ELSE /\ pc' = "loop"
            /\ inTxn' = TRUE
            /\ conn' = ConnAfter(UsedConnection(conn), conn, TRUE)
            /\ UNCHANGED escaped
    /\ UNCHANGED << db, seq, work, wseq, lock, i, successful, errors,
                    processed, wrote, otherCommits, labels, rec, recBefore,
                    call, ret, before, stmts, calls >>
    /\ UNCHANGED extraVars

\* one iteration of the loop: validation, pop of the labels, Category.create
\* and add_label for each label, each of them committing
LabelsItem ==
    /\ pc = "loop" /\ op = "create_with_labels" /\ i <= Len(callerItems)
    /\ LET item_data == callerItems[i]
           result == category_validate_data(item_data)
           labels_data == IF item_data.has_labels
                          THEN item_data.labels ELSE << >>
           popped == PopLabels(item_data)
           msg == CategoryConstraintCheck(work, popped.name,
                                          popped.category_set_id)
           row == [id |-> wseq + 1, name |-> popped.name,
                   category_set_id |-> popped.category_set_id]
           added == LabelsAdded(labels_data)
           rows == [k \in 1..added |->
                       [entity_id |-> row.id, text |-> labels_data[k].text,
                        language_code |-> labels_data[k].language_code]]
       IN /\ processed' = processed \cup {i}
          /\ IF ValidationBlocks(validate, result)
             THEN /\ Reject(RecordValidationError(errors, i, item_data,
                                                  result.errors),
                            item_data, "Validation failed")
                  /\ UNCHANGED << db, seq, work, wseq, inTxn, lock, conn,
                                  successful, wrote, callerItems, labels >>
             ELSE /\ callerItems' = [callerItems EXCEPT ![i] = popped]
                  /\ wrote' = wrote \cup {i}
                  /\ IF msg # "ok"
                     THEN /\ StatementFailed(msg)
                          /\ Fail(errors, popped, msg)
                          /\ conn' = ConnAfter(runsOn, conn, TRUE)
                          /\ UNCHANGED << successful, labels >>
                     ELSE /\ Commit(work \cup {row}, wseq + 1)
                          /\ conn' = ConnAfter(runsOn, conn, FALSE)
                          /\ labels' = labels \o rows
                          /\ IF added = Len(labels_data)
                             THEN /\ successful' =
                                        Append(successful, [idx |-> i] @@ row)
                                  /\ i' = i + 1
                                  /\ UNCHANGED << errors, pc, escaped >>
                             ELSE /\ Fail(errors, popped,
                                          add_label_outcome(
                                              labels_data[added + 1]))
                                  /\ UNCHANGED successful
    /\ UNCHANGED << op, items, validate, stop, otherCommits, runsOn,
                    mapperVars >>
    /\ UNCHANGED extraVars

\* the commit after the loop; the connection is closed if it is the
\* call's own
LabelsCommit ==
    /\ pc = "loop" /\ op = "create_with_labels" /\ i > Len(callerItems)
    /\ Commit(work, wseq)
    /\ conn' = ConnAfter(runsOn, conn, FALSE)
    /\ pc' = "done"
    /\ UNCHANGED << op, items, validate, stop, i, successful, errors,
                    processed, wrote, escaped, otherCommits, runsOn,
                    callerItems, labels, mapperVars >>
    /\ UNCHANGED extraVars

\* the outer handler: rollback and the entry added when errors is empty
LabelsRollback ==
    /\ pc = "except" /\ op = "create_with_labels"
    /\ work' = db
    /\ wseq' = seq
    /\ inTxn' = FALSE
    /\ lock' = IF lock = "bulk" THEN "none" ELSE lock
    /\ conn' = ConnAfter(runsOn, conn, FALSE)
    /\ errors' = IF Len(errors) = 0
                 THEN RecordError(errors, 0, NoneData, "transaction failed")
                 ELSE errors
    /\ pc' = "done"
    /\ UNCHANGED << db, seq, op, items, validate, stop, i, successful,
                    processed, wrote, escaped, otherCommits, runsOn,
                    callerItems, labels, mapperVars >>
    /\ UNCHANGED extraVars

NextLabels ==
    \/ \E b \in Batches(LabelItems), v \in BOOLEAN, s \in BOOLEAN :
          bulk_create_with_labels(b, v, s)
    \/ LabelsItem
    \/ LabelsCommit
    \/ LabelsRollback

\* one call of Category.bulk_create_with_labels
SpecLabels == InitLabels /\ [][NextLabels]_vars

\* ------------------------------------------------- outcome helpers
SuccessesAt(k) == { n \in 1..Len(successful) : successful[n].idx = k }
ErrorsAt(k) == { n \in 1..Len(errors) : errors[n].idx = k }

Returned == pc = "done"
Aborted == Returned /\ stop /\ Len(errors) > 0

\* ids whose row differs between the table before the call and the store
ChangedIds ==
    { id \in { r.id : r \in db \cup InitTable } :
        get(db, id) # get(InitTable, id) }

\* the effect the input item of one successful entry has on a table
ApplyItem(tbl, s) ==
    LET item_data == items[s.idx]
    IN CASE op = "create" ->
              tbl \cup { [id |-> s.id, name |-> item_data.name,
                          data_type |-> item_data.data_type] }
         [] op = "update" ->
              { IF r.id = item_data.id
                THEN [id |-> r.id] @@ Overlay(r, item_data)
                ELSE r : r \in tbl }
         [] OTHER -> tbl \ get(tbl, item_data)

RECURSIVE ApplyAll(_, _)
ApplyAll(tbl, n) ==
    IF n = 0 THEN tbl ELSE ApplyItem(ApplyAll(tbl, n - 1), successful[n])

\* the merged view of item k fails validation
ValidationFails(k) ==
    CASE op = "create" -> ~ is_valid(validate_data(items[k]))
      [] op = "update" ->
           \E r \in get(InitTable, items[k].id) :
               ~ is_valid(validate_data(Overlay(r, items[k])))
      [] OTHER -> FALSE

\* ------------------------------------------------------------ claims

\* C1: with stop_on_error=True, when an item of the batch fails the
\* transaction is rolled back in full: on return the table equals its
\* state before the call.
C1_AbortRestoresTable == Aborted => db = InitTable

\* C2: after a stop_on_error=True abort at most one item of the batch has
\* its effect persisted in the store.
C2_AbortPersistsAtMostOne == Aborted => Cardinality(ChangedIds) <= 1

\* C3: the batch holds the write lock from BEGIN IMMEDIATE until its final
\* commit or rollback: while the loop runs the lock is the batch's, no
\* other connection has committed, and no item's effect is visible.
C3_LockHeldForWholeBatch ==
    pc = "loop" => (lock = "bulk" /\ otherCommits = 0 /\ db = InitTable)

\* C4: with stop_on_error=False every item is processed and on return the
\* store holds exactly the effects of the items in the successful list.
C4_StoreIsEffectOfSuccesses ==
    (Returned /\ ~ stop) =>
        /\ processed = 1..Len(items)
        /\ db = ApplyAll(InitTable, Len(successful))

\* C5: with stop_on_error=False and no transaction-level failure every
\* input item contributes exactly one success or exactly one error entry,
\* so len(successful) + len(errors) = len(input).
C5_ExactlyOneOutcomePerItem ==
    (Returned /\ ~ stop /\ ~ escaped) =>
        /\ \A k \in 1..Len(items) :
              Cardinality(SuccessesAt(k)) + Cardinality(ErrorsAt(k)) = 1
        /\ Len(successful) + Len(errors) = Len(items)

C5_Witness ==
    /\ Returned /\ ~ stop /\ Len(items) = 3
    /\ Len(successful) > 0 /\ Len(errors) > 0

\* C6: with validate=True an item whose validation result has an error is
\* recorded as a per-item validation error and no INSERT or UPDATE is
\* executed for it, in both stop_on_error modes.
C6_InvalidItemNotWritten ==
    (validate /\ op \in {"create", "update"}) =>
        \A k \in processed :
            ValidationFails(k) =>
                /\ k \notin wrote
                /\ SuccessesAt(k) = {}
                /\ \E n \in ErrorsAt(k) : errors[n].kind = "errors"

C6_Witness ==
    /\ Returned /\ validate /\ op = "update"
    /\ \E k \in processed : ValidationFails(k)
    /\ wrote # {}

\* C7: with stop_on_error=True, once the item at position k has failed no
\* item at a later position is processed, written or reported.
C7_NothingAfterFirstFailure ==
    (stop /\ Len(errors) > 0) =>
        LET k == errors[1].idx
        IN /\ processed \subseteq 1..k
           /\ wrote \subseteq 1..k
           /\ \A n \in 1..Len(successful) : successful[n].idx < k
           /\ \A n \in 1..Len(errors) : errors[n].idx = k

C7_Witness ==
    /\ Returned /\ stop /\ Len(errors) > 0
    /\ errors[1].idx = 2 /\ Len(items) = 3

\* C8: with stop_on_error=True the outcome has at most one error entry,
\* whatever the kind of failure.
C8_AtMostOneErrorEntry == stop => Len(errors) <= 1

\* C9: with stop_on_error=False no per-item problem leaves the loop as an
\* exception: each becomes that item's error entry and the loop goes on.
C9_PerItemProblemsAreCaught ==
    ~ stop =>
        /\ ~ escaped
        /\ pc # "except"
        /\ \A k \in processed : SuccessesAt(k) = {} => ErrorsAt(k) # {}

C9_Witness ==
    /\ Returned /\ ~ stop /\ op = "update" /\ Len(errors) = 3
    /\ errors[1].error = "id is required"
    /\ errors[2].error = "not found"
    /\ errors[3].error = "UNIQUE constraint failed"

HadRow(k) ==
    /\ get(InitTable, items[k]) # {}
    /\ \A j \in 1..(k - 1) : items[j] # items[k]

C14_EmptyListIsNoOp ==
    (Returned /\ Len(items) = 0) =>
        /\ successful = << >>
        /\ errors = << >>
        /\ db = InitTable
        /\ seq = InitSeq

C14_Witness ==
    /\ Returned /\ Len(items) = 0
    /\ op = "update" /\ stop
    /\ ~ inTxn /\ lock = "none"

C20_UpdateFrame ==
    (call = "update") =>
        /\ rec.id = recBefore.id
        /\ \A r \in before : r.id # recBefore.id => r \in db
        /\ { r.id : r \in db } = { r.id : r \in before }
        /\ IF ret.status = "ok"
           THEN \A r \in get(before, recBefore.id) :
                   get(db, recBefore.id) =
                      { [id |-> r.id,
                         name |-> IF arg.name # NoKey
                                  THEN arg.name ELSE r.name,
                         data_type |-> IF arg.data_type # NoKey
                                       THEN arg.data_type
                                       ELSE r.data_type] }
           ELSE db = before
        /\ recBefore.id = NoId => (ret.status # "ok" /\ db = before)

C20_Witness ==
    /\ call = "update" /\ ret.status = "ok"
    /\ arg.id = 2 /\ arg.name = "d" /\ recBefore.id = 1
    /\ get(db, 1) = { [id |-> 1, name |-> "d",
                       data_type |-> "continuous"] }
    /\ get(db, 2) = get(InitTable, 2)

\* C16: every paginate call - BaseModel.get_paginated and
\* Category.get_paginated, with or without a search term - with page < 1,
\* pageSize < 1, pageSize > 1000, an unknown sortBy or a sortOrder other
\* than asc/desc fails with an error before any statement is executed.
InvalidParameters(a) ==
    \/ a.page < 1
    \/ a.page_size < 1
    \/ a.page_size > MaxPageSize
    \/ a.sort_by \notin {NoKey, "id"} \cup columns
    \/ Lower(a.sort_order) \notin {"asc", "desc"}

C16_InvalidParametersFailFast ==
    (call \in {"get_paginated", "category_get_paginated"}
     /\ InvalidParameters(arg)) =>
        (ret.status = "raised" /\ stmts = 0)

\* C17: for valid parameters, an unchanged table and sortBy = id, paginate
\* returns (R, N) with N the number of rows matching the filters, the same
\* for every page and pageSize, and R the rows at positions
\* (page-1)*pageSize .. page*pageSize-1 of the matching rows in sort order;
\* a page beyond the last is ([], N) with N > 0 and the pages
\* 1..ceil(N/pageSize) together hold every matching row exactly once.
SortedById(S, sort_order) ==
    CHOOSE s \in Perms(S) :
        \A m, n \in 1..Len(s) :
            m < n => IF Lower(sort_order) = "desc"
                     THEN s[m].id > s[n].id ELSE s[m].id < s[n].id

PageOf(page, page_size) ==
    LET matching == Where(db, arg.filters)
    IN Select(matching, page, page_size, arg.sort_by, arg.sort_order,
              SortedById(matching, arg.sort_order)).ret

C17_PageIsSliceOfMatchingRows ==
    (call \in {"get_paginated", "category_get_paginated"}
     /\ ret.status = "ok" /\ arg.sort_by = "id"
     /\ arg.search \in {NoKey, ""}) =>
        LET matching == { r \in db :
                            \A c \in columns : arg.filters[c] # NoKey
                                                => r[c] = arg.filters[c] }
            M == SortedById(matching, arg.sort_order)
            N == Cardinality(matching)
            skip == (arg.page - 1) * arg.page_size
            count == IF N - skip < 0 THEN 0
                     ELSE IF N - skip < arg.page_size THEN N - skip
                     ELSE arg.page_size
            lastPage == (N + arg.page_size - 1) \div arg.page_size
        IN /\ ret.total = N
           /\ ret.rows = [k \in 1..count |-> M[skip + k]]
           /\ \A p \in 1..MaxPage :
                 \A sz \in { z \in PageSizes : z >= 1 /\ z <= MaxPageSize } :
                    PageOf(p, sz).total = N
           /\ (skip >= N /\ N > 0) => (ret.rows = << >> /\ ret.total > 0)
           /\ \A r \in matching :
                 Cardinality({ pk \in (1..lastPage) \X (1..arg.page_size) :
                     /\ pk[2] <= Len(PageOf(pk[1], arg.page_size).rows)
                     /\ PageOf(pk[1], arg.page_size).rows[pk[2]] = r }) = 1

C17_Witness ==
    /\ call = "get_paginated" /\ ret.status = "ok"
    /\ arg.sort_by = "id" /\ arg.sort_order = "DESC"
    /\ arg.page = 2 /\ arg.page_size = 2
    /\ ret.total = 3 /\ Len(ret.rows) = 1 /\ ret.rows[1].id = 1

\* C18: for every conditions map over declared columns, the empty map
\* included, the rows that paginate counts and returns (pageSize at least
\* the count) are the rows that filter(conditions) returns, namely the
\* rows whose every listed column equals the given value.
C18_PaginateFiltersAreFilter ==
    (call = "filter") =>
        LET matching == { r \in db :
                            \A c \in columns :
                                arg.conditions[c] # NoKey
                                => r[c] = arg.conditions[c] }
            page == Select(Where(db, arg.conditions), 1, MaxPageSize, NoKey,
                           "asc",
                           SortedById(Where(db, arg.conditions), "asc")).ret
        IN /\ ret.status = "ok"
           /\ { ret.rows[k] : k \in 1..Len(ret.rows) } = matching
           /\ Len(ret.rows) = Cardinality(matching)
           /\ page.status = "ok"
           /\ { page.rows[k] : k \in 1..Len(page.rows) } = matching
           /\ page.total = Cardinality(matching)

\* C11: every bulk operation, Category.bulk_create_with_labels included,
\* runs its BEGIN, its item statements and its commit/rollback on a
\* connection it opened itself, never on the caller's connection, whose
\* transaction state is left unchanged.
C11_BulkRunsOnOwnConnection ==
    (pc # "idle") =>
        /\ runsOn = "own"
        /\ conn = arg.connection

\* C15: every per-item error entry carries the item exactly as the caller
\* passed it, and no bulk operation, Category.bulk_create_with_labels
\* included, modifies the caller's input items.
C15_ErrorsCarryOriginalItem ==
    (pc # "idle") =>
        /\ callerItems = items
        /\ \A n \in 1..Len(errors) :
              errors[n].idx \in 1..Len(items) =>
                 errors[n].data = IF op = "delete"
                                  THEN [id |-> items[errors[n].idx]]
                                  ELSE items[errors[n].idx]

\* C21: deleting an identifier that has no row is reported as an error,
\* never as a silent success: by bulk_delete as a per-item error entry and
\* by the single-record delete (a second delete() of the same record) as
\* an error as well.
C21_DeleteOfMissingRowIsError ==
    /\ (call = "delete" /\ get(before, recBefore.id) = {}) =>
          ret.status = "raised"
    /\ (Returned /\ op = "delete") =>
          \A k \in 1..Len(items) :
              (k \in processed /\ ~ HadRow(k)) => ErrorsAt(k) # {}

\* C29: if BaseModel.update raises because the store rejects the
\* statement, the in-memory record still has the values it had before the
\* call.
C29_FailedUpdateLeavesInstance ==
    (call = "update" /\ ret.status = "raised") => rec = recBefore

\* C24: in bulk_update with validate=True the validator is handed the
\* stored record's fields overlaid with the item's non-id fields: when that
\* merged record is valid the item gets no validation-error entry (so an
\* item that names only some columns of a valid record is accepted), and
\* when the incoming value makes the merged record invalid the item is
\* rejected with a per-item validation error, without any write.
C24_MergedViewValidated ==
    [][ (/\ pc = "loop" /\ op = "update" /\ validate /\ i <= Len(items)
         /\ items[i].id # NoId /\ get(work, items[i].id) # {}) =>
          LET stored == CHOOSE r \in get(work, items[i].id) : TRUE
              name == IF items[i].name = NoKey
                      THEN stored.name ELSE items[i].name
              data_type == IF items[i].data_type = NoKey
                           THEN stored.data_type ELSE items[i].data_type
              merged == [name |-> name, data_type |-> data_type]
              rejected == { n \in 1..Len(errors') :
                              /\ errors'[n].idx = i
                              /\ errors'[n].kind = "errors" }
          IN IF is_valid(validate_data(merged))
             THEN rejected = {}
             ELSE /\ rejected # {}
                  /\ db' = db /\ work' = work
                  /\ successful' = successful
                  /\ wrote' = wrote ]_vars

C24_Witness ==
    /\ Returned /\ op = "update" /\ validate
    /\ \E k \in 1..Len(items) :
          /\ items[k].name # NoKey /\ items[k].data_type = NoKey
          /\ k \in wrote /\ SuccessesAt(k) # {}
          /\ get(db, items[k].id) # get(InitTable, items[k].id)
    /\ \E k \in 1..Len(items) :
          /\ items[k].name = NoKey /\ items[k].data_type # NoKey
          /\ k \notin wrote /\ SuccessesAt(k) = {}
          /\ \E n \in ErrorsAt(k) : errors[n].kind = "errors"

\* C26: on return from a bulk operation, whatever stop_on_error is and
\* also after an abort, every record in the successful list of bulk_create
\* or bulk_update has a row in the store with the returned column values,
\* and every id in the successful list of bulk_delete has no row.
C26_SuccessesAgreeWithStore ==
    Returned =>
        \A n \in 1..Len(successful) :
            IF op = "delete"
            THEN get(db, successful[n].id) = {}
            ELSE [id |-> successful[n].id, name |-> successful[n].name,
                  data_type |-> successful[n].data_type] \in db

\* ------------------------------------- failures outside the item loop
\* another process may hold the write lock of the database file when the
\* call begins
InitFault ==
    /\ InitExtra
    /\ db = InitTable /\ seq = InitSeq
    /\ work = InitTable /\ wseq = InitSeq
    /\ inTxn = FALSE
    /\ lock \in {"none", "other"}
    /\ pc = "idle"
    /\ op = "none"
    /\ items = << >>
    /\ validate = TRUE
    /\ stop = FALSE
    /\ i = 1
    /\ successful = << >>
    /\ errors = << >>
    /\ processed = {}
    /\ wrote = {}
    /\ escaped = FALSE
    /\ otherCommits = 0
    /\ rec = NoRecord /\ recBefore = NoRecord
    /\ call = "none" /\ arg = NoRecord /\ ret = NoRet
    /\ before = InitTable
    /\ stmts = 0 /\ calls = 0
    /\ conn = "none" /\ runsOn = "none"
    /\ callerItems = << >> /\ labels = << >>

\* `connection.commit()` after the loop raises (the file cannot be
\* written): control passes to the outer handler
FinalCommitFails ==
    /\ pc = "loop" /\ i > Len(items)
    /\ pc' = "except"
    /\ escaped' = TRUE
    /\ UNCHANGED << db, seq, work, wseq, inTxn, lock, op, items, validate,
                    stop, i, successful, errors, processed, wrote,
                    otherCommits >>
    /\ UNCHANGED << mapperVars, callerVars >>
    /\ UNCHANGED extraVars

\* batches of a valid item, one the store refuses and one the validator
\* or the lookup refuses
FaultCreateItems ==
    { [name |-> "c", data_type |-> "text"],
      [name |-> "a", data_type |-> "text"],
      [name |-> "", data_type |-> "text"] }

FaultUpdateItems ==
    { [id |-> 1, name |-> "c", data_type |-> NoKey],
      [id |-> 2, name |-> "c", data_type |-> NoKey],
      [id |-> MissingId, name |-> "d", data_type |-> NoKey] }

FaultDeleteIds == {1, MissingId}

NextFault ==
    \/ \E b \in Batches(FaultCreateItems), v \in BOOLEAN, s \in BOOLEAN :
          bulk_create(b, v, s)
    \/ \E b \in Batches(FaultUpdateItems), v \in BOOLEAN, s \in BOOLEAN :
          bulk_update(b, v, s)
    \/ \E b \in Batches(FaultDeleteIds), s \in BOOLEAN :
          bulk_delete(b, s)
    \/ CreateItem
    \/ UpdateItem
    \/ DeleteItem
    \/ FinalCommit
    \/ FinalCommitFails
    \/ Rollback

SpecFault == InitFault /\ [][NextFault]_vars

\* C27: once the connection is obtained, BaseModel.bulk_create,
\* bulk_update and bulk_delete never let an exception reach the caller: a
\* stop_on_error abort, a failure to begin the transaction and a failure
\* of the final commit all end in the outer handler, which rolls back, and
\* the call returns with at least one error entry; when no item had
\* recorded an error the list is a single entry whose data is None.
C27_BulkNeverPropagates ==
    /\ pc \in {"idle", "loop", "except", "done"}
    /\ (Returned /\ escaped) =>
          /\ ~ inTxn
          /\ work = db
          /\ Len(errors) >= 1
          /\ (\A n \in 1..Len(errors) : errors[n].idx = 0) =>
                /\ Len(errors) = 1
                /\ errors[1].data = NoneData

C27_Witness ==
    /\ Returned /\ escaped
    /\ Len(successful) > 0
    /\ Len(errors) = 1 /\ errors[1].data = NoneData

\* ------------------------------------------------ warnings and errors
MaxResultCalls == 2

\* items whose validation gives a warning (a constraint of a type the
\* validator does not know, a category set on a text variable), an error
\* (a range constraint without bounds, an empty name), both or neither
WarnCreateItems ==
    { [name |-> "c", data_type |-> "text"],
      [name |-> "c", data_type |-> "text",
       constraints |-> << [type |-> "zzz"] >>],
      [name |-> "d", data_type |-> "text", category_set_id |-> 1],
      [name |-> "e", data_type |-> "text",
       constraints |-> << [type |-> "range"] >>],
      [name |-> "", data_type |-> "text",
       constraints |-> << [type |-> "zzz"] >>] }

WarnUpdateItems ==
    { [id |-> 1, name |-> "c", data_type |-> NoKey],
      [id |-> 2, name |-> "c", data_type |-> NoKey,
       constraints |-> << [type |-> "zzz"] >>],
      [id |-> 1, name |-> "d", data_type |-> NoKey, category_set_id |-> 1],
      [id |-> 2, name |-> NoKey, data_type |-> NoKey,
       constraints |-> << [type |-> "range"] >>],
      [id |-> 1, name |-> "", data_type |-> NoKey,
       constraints |-> << [type |-> "zzz"] >>] }

\* a caller of ValidationResult: result.add_error(field, message)
AddError ==
    /\ pc = "idle"
    /\ errorCalls + Len(validation_result.warnings) < MaxResultCalls
    /\ validation_result' = add_error(validation_result, "name")
    /\ errorCalls' = errorCalls + 1
    /\ UNCHANGED outsideValidation

\* result.add_warning(field, message)
AddWarning ==
    /\ pc = "idle"
    /\ errorCalls + Len(validation_result.warnings) < MaxResultCalls
    /\ validation_result' = add_warning(validation_result, "name")
    /\ UNCHANGED errorCalls
    /\ UNCHANGED outsideValidation

NextValidation ==
    \/ AddError
    \/ AddWarning
    \/ \E b \in Batches(WarnCreateItems), v \in BOOLEAN, s \in BOOLEAN :
          bulk_create(b, v, s)
    \/ \E b \in Batches(WarnUpdateItems), v \in BOOLEAN, s \in BOOLEAN :
          bulk_update(b, v, s)
    \/ CreateItem
    \/ UpdateItem
    \/ FinalCommit
    \/ Rollback

SpecValidation == Init /\ [][NextValidation]_vars

\* C22: only errors decide validity and block a write. After any sequence
\* of add_error and add_warning calls a ValidationResult is valid exactly
\* when add_error was never called; and an item of bulk_create or
\* bulk_update whose validation gave warnings but no error gets no
\* validation-error entry and is handed to the mapper, whose statement
\* decides its outcome as it does for any other item.
C22_OnlyErrorsBlock ==
    /\ [](is_valid(validation_result) <=> errorCalls = 0)
    /\ [][ (/\ pc = "loop" /\ op \in {"create", "update"} /\ validate
            /\ i <= Len(items)
            /\ op = "update" => get(work, items[i].id) # {}) =>
             LET stored == CHOOSE r \in get(work, items[i].id) : TRUE
                 data == IF op = "create"
                         THEN items[i]
                         ELSE [name |-> IF items[i].name = NoKey
                                        THEN stored.name
                                        ELSE items[i].name,
                               data_type |-> IF items[i].data_type = NoKey
                                             THEN stored.data_type
                                             ELSE items[i].data_type]
                              @@ Extras(items[i])
                 checked == validate_data(data)
                 others == IF op = "create" THEN work ELSE work \ {stored}
                 stored_ok == SetCheck(others, data.name, data.data_type,
                                       get_category_set_id(data)) = "ok"
                 entries == { n \in 1..Len(errors') : errors'[n].idx = i }
             IN (Len(checked.errors) = 0 /\ Len(checked.warnings) > 0) =>
                   /\ \A n \in entries : errors'[n].kind = "error"
                   /\ i \in wrote'
                   /\ IF stored_ok
                      THEN /\ entries = {}
                           /\ \E n \in 1..Len(successful') :
                                 /\ successful'[n].idx = i
                                 /\ successful'[n].name = data.name
                           /\ \E r \in db' : /\ r.name = data.name
                                             /\ r.data_type = data.data_type
                      ELSE /\ entries # {}
                           /\ db' = db
                           /\ successful' = successful ]_vars

C22_Witness ==
    /\ Returned /\ validate /\ op = "update"
    /\ errorCalls = 0 /\ Len(validation_result.warnings) > 0
    /\ \E k \in 1..Len(items) :
          /\ constraints(items[k]) # << >>
          /\ SuccessesAt(k) # {} /\ k \in wrote
          /\ \E r \in db : r.id = items[k].id /\ r.name = items[k].name
    /\ \E k \in 1..Len(items) :
          /\ get_category_set_id(items[k]) # NoId
          /\ \E n \in ErrorsAt(k) : errors[n].kind = "error"

\* ------------------------------------------- the constraint registry
\* tags a caller passes, and classes a caller registers: a class of its
\* own with its own from_dict, and a subclass of EmailConstraint that
\* overrides validate only
Tags == {"email", "regex", "custom", "unknown_type"}
RegisteredTags == {"email", "regex", "custom"}
Classes == {"EmailConstraint", "CustomConstraint", "StrictEmail"}

\* the class whose instance cls.from_dict(data) returns: every from_dict
\* is a staticmethod that names its own class, and StrictEmail inherits
\* the one of EmailConstraint
from_dict(cls) == IF cls = "StrictEmail" THEN "EmailConstraint" ELSE cls

\* CONSTRAINT_TYPES[constraint_type] = constraint_class
register_constraint_type(constraint_type, constraint_class) ==
    /\ registryBefore' = CONSTRAINT_TYPES
    /\ CONSTRAINT_TYPES' =
          [t \in DOMAIN CONSTRAINT_TYPES \cup {constraint_type} |->
              IF t = constraint_type THEN constraint_class
              ELSE CONSTRAINT_TYPES[t]]
    /\ built' = [call |-> "register", tag |-> constraint_type,
                 status |-> "ok", class |-> constraint_class]
    /\ UNCHANGED outsideRegistry

\* create_constraint(constraint_type, **kwargs): constraint_class(**kwargs)
create_constraint(constraint_type) ==
    /\ registryBefore' = CONSTRAINT_TYPES
    /\ built' = IF constraint_type \notin DOMAIN CONSTRAINT_TYPES
                THEN [call |-> "create", tag |-> constraint_type,
                      status |-> "Unknown constraint type", class |-> ""]
                ELSE [call |-> "create", tag |-> constraint_type,
                      status |-> "ok",
                      class |-> CONSTRAINT_TYPES[constraint_type]]
    /\ UNCHANGED CONSTRAINT_TYPES
    /\ UNCHANGED outsideRegistry

\* constraint_from_dict(data), data["type"] being constraint_type:
\* constraint_class.from_dict(data)
constraint_from_dict(constraint_type) ==
    /\ registryBefore' = CONSTRAINT_TYPES
    /\ built' = IF constraint_type \notin DOMAIN CONSTRAINT_TYPES
                THEN [call |-> "from_dict", tag |-> constraint_type,
                      status |-> "Unknown constraint type", class |-> ""]
                ELSE [call |-> "from_dict", tag |-> constraint_type,
                      status |-> "ok",
                      class |-> from_dict(CONSTRAINT_TYPES[constraint_type])]
    /\ UNCHANGED CONSTRAINT_TYPES
    /\ UNCHANGED outsideRegistry

NextRegistry ==
    \/ \E t \in RegisteredTags, c \in Classes : register_constraint_type(t, c)
    \/ \E t \in Tags : create_constraint(t)
    \/ \E t \in Tags : constraint_from_dict(t)

SpecRegistry == Init /\ [][NextRegistry]_vars

\* C23: the registry maps each tag to exactly one class. Registering a tag
\* again raises nothing and replaces the class; create_constraint and
\* constraint_from_dict both build an instance of the class registered
\* last under the tag; for a tag never registered both fail with 'unknown
\* constraint type'; neither changes the registry.
C23_RegistryLastWins ==
    /\ built.call = "register" =>
          /\ built.status = "ok"
          /\ CONSTRAINT_TYPES[built.tag] = built.class
          /\ \A t \in DOMAIN registryBefore \ {built.tag} :
                CONSTRAINT_TYPES[t] = registryBefore[t]
    /\ built.call \in {"create", "from_dict"} =>
          /\ CONSTRAINT_TYPES = registryBefore
          /\ IF built.tag \in DOMAIN registryBefore
             THEN /\ built.status = "ok"
                  /\ built.class = registryBefore[built.tag]
             ELSE built.status = "Unknown constraint type"

\* ------------------------------------------- cached child collections
MaxChildren == 2
MissingChild == 9
CategoryNames == {"a", "b"}

\* ids of a set of rows in the order the SELECT returns them
RECURSIVE SortedIds(_)
SortedIds(ids) ==
    IF ids = {}
    THEN << >>
    ELSE LET m == CHOOSE x \in ids : \A y \in ids : x <= y
         IN << m >> \o SortedIds(ids \ {m})

Range(s) == { s[n] : n \in 1..Len(s) }

\* the property: `if self._labels is None: self._labels = Label.filter(..)`
load(cache, ids) ==
    IF cache.loaded THEN cache ELSE [loaded |-> TRUE, ids |-> SortedIds(ids)]

\* variant of cache_append: appends to a collection that was never loaded
cache_append_unloaded(cache, id) ==
    [loaded |-> TRUE, ids |-> Append(cache.ids, id)]

\* `if self._labels is not None: self._labels.append(label)`
cache_append(cache, id) ==
    IF cache.loaded THEN [cache EXCEPT !.ids = Append(@, id)] ELSE cache

\* `if self._labels is not None: self._labels = [l for l in ... if l.id != id]`
cache_remove(cache, id) ==
    IF cache.loaded
    THEN [cache EXCEPT !.ids = SelectSeq(@, LAMBDA x : x # id)]
    ELSE cache

\* category.labels
get_labels ==
    /\ label_cache' =
          load(label_cache,
               { r.id : r \in { q \in labelRows : q.entity_id = ParentId } })
    /\ UNCHANGED << labelRows, labelSeq, categoryRows, categorySeq,
                    category_cache, childCall >>
    /\ UNCHANGED outsideCache

\* category.add_label(text, language_code, language); locked: the
\* statement fails because another connection holds the write lock
add_label(has_language, locked) ==
    /\ labelSeq < InitChildSeq + MaxChildren
    /\ IF ~ has_language \/ locked
       THEN /\ childCall' = [op |-> "add_label", id |-> NoId,
                             status |-> "raised"]
            /\ UNCHANGED << labelRows, labelSeq, label_cache >>
       ELSE /\ labelRows' = labelRows \cup
                    { [id |-> labelSeq + 1, entity_id |-> ParentId] }
            /\ labelSeq' = labelSeq + 1
            /\ label_cache' = cache_append(label_cache, labelSeq + 1)
            /\ childCall' = [op |-> "add_label", id |-> labelSeq + 1,
                             status |-> "ok"]
    /\ UNCHANGED << categoryRows, categorySeq, category_cache >>
    /\ UNCHANGED outsideCache

\* category.remove_label(label_id)
remove_label(label_id, locked) ==
    /\ LET label == { r \in labelRows : r.id = label_id }
       IN IF label = {}
          THEN /\ childCall' = [op |-> "remove_label", id |-> label_id,
                                status |-> "ok"]
               /\ UNCHANGED << labelRows, label_cache >>
          ELSE IF locked \/ \E r \in label : r.entity_id # ParentId
          THEN /\ childCall' = [op |-> "remove_label", id |-> label_id,
                                status |-> "raised"]
               /\ UNCHANGED << labelRows, label_cache >>
          ELSE /\ labelRows' = labelRows \ label
               /\ label_cache' = cache_remove(label_cache, label_id)
               /\ childCall' = [op |-> "remove_label", id |-> label_id,
                                status |-> "ok"]
    /\ UNCHANGED << labelSeq, categoryRows, categorySeq, category_cache >>
    /\ UNCHANGED outsideCache

\* category_set.categories
get_categories ==
    /\ category_cache' =
          load(category_cache,
               { r.id : r \in { q \in categoryRows :
                                  q.category_set_id = ParentId } })
    /\ UNCHANGED << labelRows, labelSeq, label_cache, categoryRows,
                    categorySeq, childCall >>
    /\ UNCHANGED outsideCache

\* category_set.add_category(name): Category.create raises on a name the
\* set already has
add_category(name, locked) ==
    /\ categorySeq < InitChildSeq + MaxChildren
    /\ IF Execute(IF locked THEN "other" ELSE "none",
                  CategoryConstraintCheck(categoryRows, name, ParentId))
          # "ok"
       THEN /\ childCall' = [op |-> "add_category", id |-> NoId,
                             status |-> "raised"]
            /\ UNCHANGED << categoryRows, categorySeq, category_cache >>
       ELSE /\ categoryRows' = categoryRows \cup
                    { [id |-> categorySeq + 1, name |-> name,
                       category_set_id |-> ParentId] }
            /\ categorySeq' = categorySeq + 1
            /\ category_cache' = cache_append(category_cache,
                                              categorySeq + 1)
            /\ childCall' = [op |-> "add_category", id |-> categorySeq + 1,
                             status |-> "ok"]
    /\ UNCHANGED << labelRows, labelSeq, label_cache >>
    /\ UNCHANGED outsideCache

\* category_set.remove_category(category_id)
remove_category(category_id, locked) ==
    /\ LET category == { r \in categoryRows : r.id = category_id }
       IN IF category = {}
          THEN /\ childCall' = [op |-> "remove_category",
                                id |-> category_id, status |-> "ok"]
               /\ UNCHANGED << categoryRows, category_cache >>
          ELSE IF locked
                  \/ \E r \in category : r.category_set_id # ParentId
          THEN /\ childCall' = [op |-> "remove_category",
                                id |-> category_id, status |-> "raised"]
               /\ UNCHANGED << categoryRows, category_cache >>
          ELSE /\ categoryRows' = categoryRows \ category
               /\ category_cache' = cache_remove(category_cache,
                                                 category_id)
               /\ childCall' = [op |-> "remove_category",
                                id |-> category_id, status |-> "ok"]
    /\ UNCHANGED << labelSeq, labelRows, label_cache, categorySeq >>
    /\ UNCHANGED outsideCache

ChildIds == 1..(InitChildSeq + MaxChildren) \cup {MissingChild}

NextCache ==
    \/ get_labels
    \/ \E has_language \in BOOLEAN, locked \in BOOLEAN :
          add_label(has_language, locked)
    \/ \E label_id \in ChildIds, locked \in BOOLEAN :
          remove_label(label_id, locked)
    \/ get_categories
    \/ \E name \in CategoryNames, locked \in BOOLEAN :
          add_category(name, locked)
    \/ \E category_id \in ChildIds, locked \in BOOLEAN :
          remove_category(category_id, locked)

SpecCache == Init /\ [][NextCache]_vars

\* C25: for one parent instance, after any sequence of add and remove
\* calls made through it, whether or not the collection had been loaded
\* before, the cached child collection (once it is loaded, by the property
\* or earlier) holds exactly the child rows the store has for that parent:
\* an added child is in it, a removed child is not.
C25_CacheFollowsStore ==
    /\ label_cache.loaded =>
          /\ Range(label_cache.ids) =
                { r.id : r \in { q \in labelRows : q.entity_id = ParentId } }
          /\ Len(label_cache.ids) = Cardinality(Range(label_cache.ids))
    /\ category_cache.loaded =>
          /\ Range(category_cache.ids) =
                { r.id : r \in { q \in categoryRows :
                                   q.category_set_id = ParentId } }
          /\ Len(category_cache.ids) = Cardinality(Range(category_cache.ids))
    /\ (childCall.op = "add_label" /\ childCall.status = "ok") =>
          /\ \E r \in labelRows : r.id = childCall.id
          /\ label_cache.loaded => childCall.id \in Range(label_cache.ids)
    /\ (childCall.op = "remove_label" /\ childCall.status = "ok") =>
          /\ ~ \E r \in labelRows : r.id = childCall.id
          /\ childCall.id \notin Range(label_cache.ids)
    /\ (childCall.op = "add_category" /\ childCall.status = "ok") =>
          /\ \E r \in categoryRows : r.id = childCall.id
          /\ category_cache.loaded =>
                childCall.id \in Range(category_cache.ids)
    /\ (childCall.op = "remove_category" /\ childCall.status = "ok") =>
          /\ ~ \E r \in categoryRows : r.id = childCall.id
          /\ childCall.id \notin Range(category_cache.ids)

C25_Witness ==
    /\ label_cache.loaded /\ category_cache.loaded
    /\ labelSeq > InitChildSeq /\ categorySeq > InitChildSeq
    /\ 1 \notin Range(label_cache.ids)
    /\ labelSeq \in Range(label_cache.ids)
    /\ categorySeq \in Range(category_cache.ids)
    /\ childCall.op = "remove_category" /\ childCall.id = 1

\* ------------------------------------------------- composite creation
MaxCompositeCalls == 2

\* lists of category names, and items of bulk_create_with_categories
CategoryNameLists == { << "x" >>, << "x", "y" >>, << "x", "x" >> }

SetItems ==
    { [name |-> "c", category_names |-> << "x" >>],
      [name |-> "b", category_names |-> << "x", "x" >>],
      [name |-> "a", category_names |-> << "x" >>],
      [name |-> "", category_names |-> << "x" >>],
      [name |-> "c", category_names |-> << >>] }

\* the loop of create_with_categories: Category.create for each name, each
\* with its own commit, until one raises
RECURSIVE create_categories(_, _, _, _)
create_categories(rows, sq, set_id, names) ==
    IF names = << >>
    THEN [rows |-> rows, seq |-> sq, status |-> "ok"]
    ELSE LET msg == CategoryConstraintCheck(rows, Head(names), set_id)
         IN IF msg # "ok"
            THEN [rows |-> rows, seq |-> sq, status |-> msg]
            ELSE create_categories(
                     rows \cup { [id |-> sq + 1, name |-> Head(names),
                                  category_set_id |-> set_id] },
                     sq + 1, set_id, Tail(names))

\* CategorySet.create_with_categories on the tables st: cls.create of the
\* set (UNIQUE name), then the categories
with_categories(st, name, category_names) ==
    IF \E r \in st.sets : r.name = name
    THEN [st EXCEPT !.status = "UNIQUE constraint failed"]
    ELSE LET cats == create_categories(st.rows, st.catSeq, st.setSeq + 1,
                                       category_names)
         IN [sets |-> st.sets \cup { [id |-> st.setSeq + 1, name |-> name] },
             setSeq |-> st.setSeq + 1,
             rows |-> cats.rows,
             catSeq |-> cats.seq,
             status |-> cats.status]

Tables ==
    [sets |-> category_sets, setSeq |-> setSeq, rows |-> categoryRows,
     catSeq |-> categorySeq, status |-> "ok"]

\* the tables after a composite call
Store(st) ==
    /\ category_sets' = st.sets
    /\ setSeq' = st.setSeq
    /\ categoryRows' = st.rows
    /\ categorySeq' = st.catSeq
    /\ setsBefore' = category_sets
    /\ categoriesBefore' = categoryRows

\* CategorySet.create_with_categories(name, category_names)
create_with_categories(name, category_names) ==
    /\ composite.calls < MaxCompositeCalls
    /\ LET st == with_categories(Tables, name, category_names)
       IN /\ Store(st)
          /\ composite' = [NoComposite EXCEPT
                              !.op = "create_with_categories",
                              !.status = IF st.status = "ok"
                                         THEN "ok" ELSE "raised",
                              !.calls = composite.calls + 1]
    /\ UNCHANGED << labelRows, labelSeq, label_cache, category_cache,
                    childCall >>
    /\ UNCHANGED outsideComposite

\* Variable.create_categorical(name, data_type, category_names):
\* create_with_categories, then create_with_validation
create_categorical(name, data_type, category_names) ==
    /\ composite.calls < MaxCompositeCalls
    /\ LET st == with_categories(Tables, name, category_names)
           data == [name |-> name, data_type |-> data_type,
                    category_set_id |-> st.setSeq]
           checked == validate_data(data)
           msg == SetCheck(db, name, data_type, st.setSeq)
           done(status) == [NoComposite EXCEPT !.op = "create_categorical",
                                               !.status = status,
                                               !.calls = composite.calls + 1]
       IN IF data_type \notin CATEGORICAL_TYPES
          THEN /\ Store(Tables)
               /\ composite' = done("raised")
               /\ UNCHANGED << db, seq, work, wseq >>
          ELSE IF st.status # "ok"
          THEN /\ Store(st)
               /\ composite' = done("raised")
               /\ UNCHANGED << db, seq, work, wseq >>
          ELSE IF ~ is_valid(checked)
          THEN /\ Store(st)
               /\ composite' = done("no variable")
               /\ UNCHANGED << db, seq, work, wseq >>
          ELSE IF msg # "ok"
          THEN /\ Store(st)
               /\ composite' = done("raised")
               /\ UNCHANGED << db, seq, work, wseq >>
          ELSE /\ Store(st)
               /\ composite' = done("ok")
               /\ db' = db \cup { [id |-> seq + 1, name |-> name,
                                   data_type |-> data_type] }
               /\ work' = db'
               /\ seq' = seq + 1
               /\ wseq' = seq + 1
    /\ UNCHANGED << labelRows, labelSeq, label_cache, category_cache,
                    childCall >>
    /\ UNCHANGED << bulkVars, mapperVars, callerVars, validationVars,
                    registryVars, importVars >>

\* the item loop of bulk_create_with_categories from position k on; each
\* error entry notes how many rows the item's processing added
RECURSIVE bulk_sets(_, _, _, _, _, _)
bulk_sets(st, items_data, stp, k, done, errs) ==
    IF k > Len(items_data)
    THEN [st |-> st, successful |-> done, errors |-> errs]
    ELSE LET item_data == items_data[k]
             refused ==
                 IF item_data.name = "" THEN "Name is required"
                 ELSE IF item_data.category_names = << >>
                      THEN "Category names are required"
                      ELSE IF ~ validate_name(item_data.name)
                           THEN "Name must be a valid identifier"
                           ELSE "ok"
             next == with_categories([st EXCEPT !.status = "ok"],
                                     item_data.name,
                                     item_data.category_names)
             left == Cardinality(next.sets \ st.sets)
                     + Cardinality(next.rows \ st.rows)
             entry(msg, n) == [idx |-> k, data |-> item_data,
                               error |-> msg, left |-> n]
         IN IF refused # "ok"
            THEN IF stp
                 THEN [st |-> st, successful |-> done,
                       errors |-> errs \o << entry(refused, 0),
                                             entry(refused, 0) >>]
                 ELSE bulk_sets(st, items_data, stp, k + 1, done,
                                Append(errs, entry(refused, 0)))
            ELSE IF next.status # "ok"
            THEN IF stp
                 THEN [st |-> next, successful |-> done,
                       errors |-> Append(errs, entry(next.status, left))]
                 ELSE bulk_sets(next, items_data, stp, k + 1, done,
                                Append(errs, entry(next.status, left)))
            ELSE bulk_sets(next, items_data, stp, k + 1,
                           Append(done, next.setSeq), errs)

\* CategorySet.bulk_create_with_categories(items_data, stop_on_error)
bulk_create_with_categories(items_data, stp) ==
    /\ composite.calls < MaxCompositeCalls
    /\ LET out == bulk_sets(Tables, items_data, stp, 1, << >>, << >>)
       IN /\ Store(out.st)
          /\ composite' = [op |-> "bulk_create_with_categories",
                           status |-> "ok",
                           successful |-> out.successful,
                           errors |-> out.errors,
                           calls |-> composite.calls + 1]
    /\ UNCHANGED << labelRows, labelSeq, label_cache, category_cache,
                    childCall >>
    /\ UNCHANGED outsideComposite

NextComposite ==
    \/ \E name \in {"c", "a"}, category_names \in CategoryNameLists :
          create_with_categories(name, category_names)
    \/ \E name \in {"c", "b", "Bad"}, data_type \in {"nominal", "text"},
          category_names \in CategoryNameLists :
          create_categorical(name, data_type, category_names)
    \/ \E b \in Batches(SetItems), s \in BOOLEAN :
          bulk_create_with_categories(b, s)

SpecComposite == Init /\ [][NextComposite]_vars

\* C28: composite creation is all-or-nothing. When create_with_categories
\* raises, or create_categorical raises or returns no variable, the call
\* has left no category set row and no category row in the store; and an
\* item that bulk_create_with_categories reports in errors has left no
\* rows behind.
C28_CompositeAllOrNothing ==
    /\ composite.status \in {"raised", "no variable"} =>
          /\ category_sets = setsBefore
          /\ categoryRows = categoriesBefore
    /\ \A n \in 1..Len(composite.errors) : composite.errors[n].left = 0

\* ----------------------------------------------------- import_from_json
\* entries of the imported file (list format): a valid replacement of
\* variable a, one with an invalid data type, one that passes validation
\* but whose creation raises (a nominal variable that names a
\* category_set_id and no category_set), a new variable, an invalid b,
\* an entry without name
ImportItems ==
    { [name |-> "a", data_type |-> "text"],
      [name |-> "a", data_type |-> "bad"],
      [name |-> "a", data_type |-> "nominal", category_set_id |-> 1],
      [name |-> "c", data_type |-> "text"],
      [name |-> "b", data_type |-> "bad"],
      [name |-> "", data_type |-> "text"] }

\* _import_variable_from_dict: what it raises, or "ok"
import_variable_from_dict(tbl, var_data) ==
    IF var_data.data_type \in CATEGORICAL_TYPES
    THEN "Category set is required"
    ELSE ConstraintCheck(tbl, var_data.name, var_data.data_type)

\* the loop of import_from_json over the entries from position k on
RECURSIVE import_loop(_, _, _, _, _)
import_loop(tbl, sq, variables_data, overwrite, out) ==
    IF variables_data = << >>
    THEN [tbl |-> tbl, seq |-> sq, out |-> out]
    ELSE LET var_data == Head(variables_data)
             rest == Tail(variables_data)
             existing_var == { r \in tbl : r.name = var_data.name }
             failed == [out EXCEPT
                           !.all_errors = Append(@, var_data.name)]
             unknown == [out EXCEPT !.all_errors = Append(@, "unknown")]
         IN IF var_data.name = ""
            THEN import_loop(tbl, sq, rest, overwrite, unknown)
            ELSE IF existing_var # {} /\ ~ overwrite
            THEN import_loop(tbl, sq, rest, overwrite, failed)
            ELSE LET kept == tbl \ existing_var
                     noted == IF existing_var # {}
                              THEN [out EXCEPT !.overwritten_variables =
                                                  Append(@, var_data.name)]
                              ELSE out
                     noted_failed == [noted EXCEPT
                                         !.all_errors =
                                             Append(@, var_data.name)]
                 IN IF ~ is_valid(validate_data(var_data))
                    THEN import_loop(kept, sq, rest, overwrite,
                                     noted_failed)
                    ELSE IF import_variable_from_dict(kept, var_data)
                               # "ok"
                    THEN import_loop(kept, sq, rest, overwrite,
                                     noted_failed)
                    ELSE import_loop(
                             kept \cup { [id |-> sq + 1,
                                          name |-> var_data.name,
                                          data_type |-> var_data.data_type] },
                             sq + 1, rest, overwrite,
                             [noted EXCEPT !.imported_variables =
                                              Append(@, var_data.name)])

\* Variable.import_from_json(file_path, overwrite)
import_from_json(variables_data, overwrite) ==
    /\ ~ import_result.called
    /\ LET done == import_loop(db, seq, variables_data, overwrite,
                               [NoImport EXCEPT !.called = TRUE,
                                                !.overwrite = overwrite])
       IN /\ db' = done.tbl
          /\ work' = done.tbl
          /\ seq' = done.seq
          /\ wseq' = done.seq
          /\ import_result' = done.out
    /\ UNCHANGED << bulkVars, mapperVars, callerVars, validationVars,
                    registryVars, cacheVars, compositeVars >>

NextImport ==
    \E variables_data \in Batches(ImportItems), overwrite \in BOOLEAN :
        import_from_json(variables_data, overwrite)

SpecImport == Init /\ [][NextImport]_vars

\* C30: import_from_json with overwrite=True removes a variable that
\* existed before only when its replacement is imported: a variable whose
\* replacement failed validation or whose creation raised is still in the
\* store, and its name is not in the overwritten list.
C30_OverwriteOnlyWhenReplaced ==
    (import_result.called /\ import_result.overwrite) =>
        /\ \A r \in InitTable :
              r \notin db =>
                 r.name \in Range(import_result.imported_variables)
        /\ \A name \in Range(import_result.overwritten_variables) :
              name \in Range(import_result.imported_variables)

====
